---- MODULE Spec2Model ----
(***************************************************************************)
(* The statement table of candidate-agreement (src/candidate-agreement/    *)
(* src/table.rs): signed statements about parachain candidates are         *)
(* imported into a Table, which accounts validity and availability votes,  *)
(* records provable misbehavior and proposes includable candidates.        *)
(*                                                                         *)
(* HashMaps are functions with a partial domain, Option<T> is a set with   *)
(* at most one element, a Vec is a sequence.  The Context is the test      *)
(* context of the source (tests::TestContext), with signatures widened to  *)
(* (signer, nonce) pairs so that one validator can sign twice differently  *)
(* and so that a signature may have no recoverable signer.                 *)
(***************************************************************************)
EXTENDS Integers, Sequences, FiniteSets, TLC

\* Number of Table operations explored from the empty table.
MaxCalls == 4

\* Largest threshold can_be_included is asked about, and the most accusers
\* pushed on a record built by hand.
MaxThreshold == 3
MaxAccusers == 1

\* Size of the statement sets imported in every order.
MaxSet == 4

\* Number of calls, queries among them, made on a table whose calls are told
\* apart.
MaxQueries == 3

\* Number of calls made on a table one of whose validators keeps to the rules.
MaxHonest == 3

\* ------------------------------------------------------------------------
\* The universe of opaque values (Context's associated types).

\* ValidatorId(usize): 1, 2, 3 are registered in the context, 4 is not.
ValidatorIds == {1, 2, 3, 4}

\* GroupId(usize), ordered by the derived Ord.
GroupIds == {1, 2}

\* The body field of Candidate(group, body).
Bodies == {1, 2}

\* Candidate(usize, usize): <<group, body>>.
Candidates == GroupIds \X Bodies

\* Digest(usize).
Digests == Bodies

\* Signature: <<signer, nonce>>; signer 0 is a signature nobody is recovered from.
\* Validator 1 has two signatures, the others one.
Signatures == {<<1, 1>>, <<1, 2>>, <<2, 1>>, <<3, 1>>, <<4, 1>>, <<0, 1>>}

\* Statement<C>: the four variants.
Statements ==
    [kind : {"Candidate"}, candidate : Candidates]
        \cup [kind : {"Valid", "Invalid", "Available"}, digest : Digests]

\* SignedStatement<C>.
SignedStatements == [statement : Statements, signature : Signatures]

\* ------------------------------------------------------------------------
\* The Context (tests::TestContext).

\* TestContext.validators: v -> (validity group, availability group).
validators == (1 :> <<1, 2>>) @@ (2 :> <<1, 2>>) @@ (3 :> <<2, 1>>)

candidate_digest(candidate) == candidate[2]

candidate_group(candidate) == candidate[1]

is_member_of(validator, group) ==
    IF validator \in DOMAIN validators THEN validators[validator][1] = group ELSE FALSE

is_availability_guarantor_of(validator, group) ==
    IF validator \in DOMAIN validators THEN validators[validator][2] = group ELSE FALSE

\* Option<ValidatorId>: the signer the signature names, none for signer 0.
statement_signer(statement) ==
    IF statement.signature[1] \in ValidatorIds THEN {statement.signature[1]} ELSE {}

\* The thresholds a context may report, by group: the test context's (6, 34)
\* scaled down to what three validators can reach.
RequisiteChoices ==
    {<<<<1, 0>>, <<2, 1>>>>, <<<<2, 0>>, <<1, 1>>>>, <<<<1, 1>>, <<1, 0>>>>, <<<<2, 1>>, <<2, 0>>>>}

VARIABLES
    table,           \* the Table: proposed_candidates, detected_misbehavior, candidate_votes
    panicked,        \* an import hit panic!/expect: the call did not return
    ncalls,          \* operations applied so far
    first_candidate, \* history: the candidate of each validator's noted proposal
    data,            \* a CandidateData built field by field, as the unit test builds one
    included,        \* the last can_be_included answer about data, none after a change
    imported,        \* history: the set of statements imported, where sets are compared
    orderly,         \* history: every vote so far found the record of its digest
    last_call,       \* history: the operation applied last and what it returned
    honest           \* history: a validator followed, and the statements it has signed

vars == <<table, panicked, ncalls, first_candidate, data, included, imported, orderly,
          last_call, honest>>

\* (validity threshold, availability threshold) of a group, in the context
\* whose thresholds are `requisite`.
requisite_votes(requisite, group) == requisite[group]

\* Ord of Candidate(usize, usize): derived, lexicographic.
CandidateLt(a, b) == a[1] < b[1] \/ (a[1] = b[1] /\ a[2] < b[2])

\* ------------------------------------------------------------------------
\* Values the table builds.

EmptyMap == [x \in {} |-> 0]

\* ValidityVote<S>
Issued(s) == [kind |-> "Issued", sig |-> s]
ValidVote(s) == [kind |-> "Valid", sig |-> s]
InvalidVote(s) == [kind |-> "Invalid", sig |-> s]

\* Misbehavior::UnauthorizedStatement(UnauthorizedStatement { statement })
UnauthorizedStatement(signed) == [kind |-> "UnauthorizedStatement", statement |-> signed]

\* Misbehavior::MultipleCandidates(MultipleCandidates { first, second })
MultipleCandidates(first, second) ==
    [kind |-> "MultipleCandidates", first |-> first, second |-> second]

\* Misbehavior::ValidityDoubleVote(proof); proof = [kind, args], args the
\* variant's tuple fields in order.
ValidityDoubleVote(proof) == [kind |-> "ValidityDoubleVote", proof |-> proof]
IssuedAndValidity(a, b) == [kind |-> "IssuedAndValidity", args |-> <<a, b>>]
IssuedAndInvalidity(a, b) == [kind |-> "IssuedAndInvalidity", args |-> <<a, b>>]
ValidityAndInvalidity(d, good, bad) ==
    [kind |-> "ValidityAndInvalidity", args |-> <<d, good, bad>>]

\* ------------------------------------------------------------------------
\* State.

\* create(): a new, empty statement table.
create ==
    [proposed_candidates |-> EmptyMap,
     detected_misbehavior |-> EmptyMap,
     candidate_votes |-> EmptyMap]

\* A handler's outcome: the table as it leaves it, the Option<Misbehavior> it
\* returns, and whether it panicked instead of returning.
Outcome(t, mis, panic) == [table |-> t, mis |-> mis, panic |-> panic]

\* ------------------------------------------------------------------------
\* CandidateData

\* A faulty variant: thresholds taken as exclusive bounds.
can_be_included_exclusive(candidate_data, validity_threshold, availability_threshold) ==
    /\ candidate_data.indicated_bad_by = <<>>
    /\ Cardinality(DOMAIN candidate_data.validity_votes) > validity_threshold
    /\ Cardinality(DOMAIN candidate_data.availability_votes) > availability_threshold

\* A faulty variant: the accusers are not looked at.
can_be_included_accused(candidate_data, validity_threshold, availability_threshold) ==
    /\ Cardinality(DOMAIN candidate_data.validity_votes) >= validity_threshold
    /\ Cardinality(DOMAIN candidate_data.availability_votes) >= availability_threshold

can_be_included(candidate_data, validity_threshold, availability_threshold) ==
    /\ candidate_data.indicated_bad_by = <<>>
    /\ Cardinality(DOMAIN candidate_data.validity_votes) >= validity_threshold
    /\ Cardinality(DOMAIN candidate_data.availability_votes) >= availability_threshold

\* ------------------------------------------------------------------------
\* Table::validity_vote

\* A faulty variant: the stored vote's signature always comes first in
\* ValidityAndInvalidity.
DoubleVoteProofStoredFirst(candidate, digest, stored, vote) ==
    CASE stored.kind = "Issued" /\ vote.kind = "Valid" ->
            {IssuedAndValidity(<<candidate, stored.sig>>, <<digest, vote.sig>>)}
      [] stored.kind = "Valid" /\ vote.kind = "Issued" ->
            {IssuedAndValidity(<<candidate, vote.sig>>, <<digest, stored.sig>>)}
      [] stored.kind = "Issued" /\ vote.kind = "Invalid" ->
            {IssuedAndInvalidity(<<candidate, stored.sig>>, <<digest, vote.sig>>)}
      [] stored.kind = "Invalid" /\ vote.kind = "Issued" ->
            {IssuedAndInvalidity(<<candidate, vote.sig>>, <<digest, stored.sig>>)}
      [] stored.kind = "Valid" /\ vote.kind = "Invalid" ->
            {ValidityAndInvalidity(digest, stored.sig, vote.sig)}
      [] stored.kind = "Invalid" /\ vote.kind = "Valid" ->
            {ValidityAndInvalidity(digest, stored.sig, vote.sig)}
      [] OTHER -> {}

\* A faulty variant: the stored vote's signature always goes with the
\* candidate in IssuedAndValidity and IssuedAndInvalidity.
DoubleVoteProofStoredIssued(candidate, digest, stored, vote) ==
    CASE stored.kind = "Issued" /\ vote.kind = "Valid" ->
            {IssuedAndValidity(<<candidate, stored.sig>>, <<digest, vote.sig>>)}
      [] stored.kind = "Valid" /\ vote.kind = "Issued" ->
            {IssuedAndValidity(<<candidate, stored.sig>>, <<digest, vote.sig>>)}
      [] stored.kind = "Issued" /\ vote.kind = "Invalid" ->
            {IssuedAndInvalidity(<<candidate, stored.sig>>, <<digest, vote.sig>>)}
      [] stored.kind = "Invalid" /\ vote.kind = "Issued" ->
            {IssuedAndInvalidity(<<candidate, stored.sig>>, <<digest, vote.sig>>)}
      [] stored.kind = "Valid" /\ vote.kind = "Invalid" ->
            {ValidityAndInvalidity(digest, stored.sig, vote.sig)}
      [] stored.kind = "Invalid" /\ vote.kind = "Valid" ->
            {ValidityAndInvalidity(digest, vote.sig, stored.sig)}
      [] OTHER -> {}

\* A faulty variant: the proof is built from the incoming vote alone, the
\* stored vote forgotten.
DoubleVoteProofOfIncoming(candidate, digest, stored, vote) ==
    CASE stored.kind = "Issued" /\ vote.kind = "Valid" ->
            {IssuedAndValidity(<<candidate, vote.sig>>, <<digest, vote.sig>>)}
      [] stored.kind = "Valid" /\ vote.kind = "Issued" ->
            {IssuedAndValidity(<<candidate, vote.sig>>, <<digest, vote.sig>>)}
      [] stored.kind = "Issued" /\ vote.kind = "Invalid" ->
            {IssuedAndInvalidity(<<candidate, vote.sig>>, <<digest, vote.sig>>)}
      [] stored.kind = "Invalid" /\ vote.kind = "Issued" ->
            {IssuedAndInvalidity(<<candidate, vote.sig>>, <<digest, vote.sig>>)}
      [] stored.kind = "Valid" /\ vote.kind = "Invalid" ->
            {ValidityAndInvalidity(digest, vote.sig, vote.sig)}
      [] stored.kind = "Invalid" /\ vote.kind = "Valid" ->
            {ValidityAndInvalidity(digest, vote.sig, vote.sig)}
      [] OTHER -> {}

\* A faulty variant: two votes of one variant signed differently are taken
\* for a Valid and an Invalid vote.
DoubleVoteProofOnSameKind(candidate, digest, stored, vote) ==
    CASE stored.kind = "Issued" /\ vote.kind = "Valid" ->
            {IssuedAndValidity(<<candidate, stored.sig>>, <<digest, vote.sig>>)}
      [] stored.kind = "Valid" /\ vote.kind = "Issued" ->
            {IssuedAndValidity(<<candidate, vote.sig>>, <<digest, stored.sig>>)}
      [] stored.kind = "Issued" /\ vote.kind = "Invalid" ->
            {IssuedAndInvalidity(<<candidate, stored.sig>>, <<digest, vote.sig>>)}
      [] stored.kind = "Invalid" /\ vote.kind = "Issued" ->
            {IssuedAndInvalidity(<<candidate, vote.sig>>, <<digest, stored.sig>>)}
      [] stored.kind = "Valid" /\ vote.kind = "Invalid" ->
            {ValidityAndInvalidity(digest, stored.sig, vote.sig)}
      [] stored.kind = "Invalid" /\ vote.kind = "Valid" ->
            {ValidityAndInvalidity(digest, vote.sig, stored.sig)}
      [] OTHER -> {ValidityAndInvalidity(digest, stored.sig, vote.sig)}

\* The proof for a stored vote and a different incoming one; none when both are
\* of the same variant.
DoubleVoteProof(candidate, digest, stored, vote) ==
    CASE stored.kind = "Issued" /\ vote.kind = "Valid" ->
            {IssuedAndValidity(<<candidate, stored.sig>>, <<digest, vote.sig>>)}
      [] stored.kind = "Valid" /\ vote.kind = "Issued" ->
            {IssuedAndValidity(<<candidate, vote.sig>>, <<digest, stored.sig>>)}
      [] stored.kind = "Issued" /\ vote.kind = "Invalid" ->
            {IssuedAndInvalidity(<<candidate, stored.sig>>, <<digest, vote.sig>>)}
      [] stored.kind = "Invalid" /\ vote.kind = "Issued" ->
            {IssuedAndInvalidity(<<candidate, vote.sig>>, <<digest, stored.sig>>)}
      [] stored.kind = "Valid" /\ vote.kind = "Invalid" ->
            {ValidityAndInvalidity(digest, stored.sig, vote.sig)}
      [] stored.kind = "Invalid" /\ vote.kind = "Valid" ->
            {ValidityAndInvalidity(digest, vote.sig, stored.sig)}
      [] OTHER -> {}

\* A faulty variant: the statement given back is always a Valid one.
UnauthorizedVoteAsValid(digest, vote) ==
    UnauthorizedStatement(
        [signature |-> vote.sig, statement |-> [kind |-> "Valid", digest |-> digest]])

\* The unauthorized explicit vote, given back as the statement it came from.
UnauthorizedVote(digest, vote) ==
    UnauthorizedStatement(
        [signature |-> vote.sig,
         statement |-> IF vote.kind = "Valid"
                       THEN [kind |-> "Valid", digest |-> digest]
                       ELSE [kind |-> "Invalid", digest |-> digest]])

\* A faulty variant: every first validity vote is stored as an Issued vote.
InsertValidityVoteAsIssued(votes, from, vote) ==
    [votes EXCEPT
        !.indicated_bad_by = IF vote.kind = "Invalid" THEN Append(@, from) ELSE @,
        !.validity_votes = @ @@ (from :> Issued(vote.sig))]

\* A faulty variant: the first validity vote of a validator empties the
\* record's availability votes.
InsertValidityVoteResetting(votes, from, vote) ==
    [votes EXCEPT
        !.indicated_bad_by = IF vote.kind = "Invalid" THEN Append(@, from) ELSE @,
        !.validity_votes = @ @@ (from :> vote),
        !.availability_votes = EmptyMap]

\* The record after the first validity vote of `from`.
InsertValidityVote(votes, from, vote) ==
    [votes EXCEPT
        !.indicated_bad_by = IF vote.kind = "Invalid" THEN Append(@, from) ELSE @,
        !.validity_votes = @ @@ (from :> vote)]

\* A faulty variant: a conflicting vote takes the place of the stored one.
validity_vote_overwriting(t, from, digest, vote) ==
    IF digest \notin DOMAIN t.candidate_votes
    THEN Outcome(t, {}, FALSE)
    ELSE LET votes == t.candidate_votes[digest] IN
         IF ~is_member_of(from, votes.group_id)
         THEN IF vote.kind = "Issued"
              THEN Outcome(t, {}, TRUE)
              ELSE Outcome(t, {UnauthorizedVote(digest, vote)}, FALSE)
         ELSE IF from \in DOMAIN votes.validity_votes
              THEN IF votes.validity_votes[from] # vote
                   THEN LET proof == DoubleVoteProof(votes.candidate, digest,
                                                     votes.validity_votes[from], vote)
                        IN Outcome(
                              [t EXCEPT !.candidate_votes[digest].validity_votes =
                                            (from :> vote) @@ @],
                              {ValidityDoubleVote(p) : p \in proof}, FALSE)
                   ELSE Outcome(t, {}, FALSE)
              ELSE Outcome(
                      [t EXCEPT !.candidate_votes[digest] =
                                    InsertValidityVote(votes, from, vote)],
                      {}, FALSE)

\* A faulty variant: a conflicting Invalid vote adds its signer to
\* indicated_bad_by.
validity_vote_accusing_late(t, from, digest, vote) ==
    IF digest \notin DOMAIN t.candidate_votes
    THEN Outcome(t, {}, FALSE)
    ELSE LET votes == t.candidate_votes[digest] IN
         IF ~is_member_of(from, votes.group_id)
         THEN IF vote.kind = "Issued"
              THEN Outcome(t, {}, TRUE)
              ELSE Outcome(t, {UnauthorizedVote(digest, vote)}, FALSE)
         ELSE IF from \in DOMAIN votes.validity_votes
              THEN IF votes.validity_votes[from] # vote
                   THEN LET proof == DoubleVoteProof(votes.candidate, digest,
                                                     votes.validity_votes[from], vote)
                        IN Outcome(
                              [t EXCEPT !.candidate_votes[digest].indicated_bad_by =
                                            IF vote.kind = "Invalid"
                                            THEN Append(@, from)
                                            ELSE @],
                              {ValidityDoubleVote(p) : p \in proof}, FALSE)
                   ELSE Outcome(t, {}, FALSE)
              ELSE Outcome(
                      [t EXCEPT !.candidate_votes[digest] =
                                    InsertValidityVote(votes, from, vote)],
                      {}, FALSE)

validity_vote(t, from, digest, vote) ==
    IF digest \notin DOMAIN t.candidate_votes
    THEN Outcome(t, {}, FALSE)
    ELSE LET votes == t.candidate_votes[digest] IN
         IF ~is_member_of(from, votes.group_id)
         THEN IF vote.kind = "Issued"
              THEN Outcome(t, {}, TRUE)
              ELSE Outcome(t, {UnauthorizedVote(digest, vote)}, FALSE)
         ELSE IF from \in DOMAIN votes.validity_votes
              THEN IF votes.validity_votes[from] # vote
                   THEN LET proof == DoubleVoteProof(votes.candidate, digest,
                                                     votes.validity_votes[from], vote)
                        IN Outcome(t, {ValidityDoubleVote(p) : p \in proof}, FALSE)
                   ELSE Outcome(t, {}, FALSE)
              ELSE Outcome(
                      [t EXCEPT !.candidate_votes[digest] =
                                    InsertValidityVote(votes, from, vote)],
                      {}, FALSE)

\* ------------------------------------------------------------------------
\* Table::availability_vote

\* A faulty variant: the membership asked for is that of proposers.
availability_vote_of_members(t, from, digest, signature) ==
    IF digest \notin DOMAIN t.candidate_votes
    THEN Outcome(t, {}, FALSE)
    ELSE LET votes == t.candidate_votes[digest] IN
         IF ~is_member_of(from, votes.group_id)
         THEN Outcome(t,
                      {UnauthorizedStatement(
                          [signature |-> signature,
                           statement |-> [kind |-> "Available", digest |-> digest]])},
                      FALSE)
         ELSE Outcome(
                 [t EXCEPT !.candidate_votes[digest].availability_votes =
                               (from :> signature) @@ @],
                 {}, FALSE)

\* A faulty variant: a vote on a digest without a record is held against its
\* signer.
availability_vote_accusing_absent(t, from, digest, signature) ==
    IF digest \notin DOMAIN t.candidate_votes
    THEN Outcome(t,
                 {UnauthorizedStatement(
                     [signature |-> signature,
                      statement |-> [kind |-> "Available", digest |-> digest]])},
                 FALSE)
    ELSE LET votes == t.candidate_votes[digest] IN
         IF ~is_availability_guarantor_of(from, votes.group_id)
         THEN Outcome(t,
                      {UnauthorizedStatement(
                          [signature |-> signature,
                           statement |-> [kind |-> "Available", digest |-> digest]])},
                      FALSE)
         ELSE Outcome(
                 [t EXCEPT !.candidate_votes[digest].availability_votes =
                               (from :> signature) @@ @],
                 {}, FALSE)

\* A faulty variant: the signature of the first Available vote is kept.
availability_vote_keeping_first(t, from, digest, signature) ==
    IF digest \notin DOMAIN t.candidate_votes
    THEN Outcome(t, {}, FALSE)
    ELSE LET votes == t.candidate_votes[digest] IN
         IF ~is_availability_guarantor_of(from, votes.group_id)
         THEN Outcome(t,
                      {UnauthorizedStatement(
                          [signature |-> signature,
                           statement |-> [kind |-> "Available", digest |-> digest]])},
                      FALSE)
         ELSE Outcome(
                 [t EXCEPT !.candidate_votes[digest].availability_votes =
                               @ @@ (from :> signature)],
                 {}, FALSE)

availability_vote(t, from, digest, signature) ==
    IF digest \notin DOMAIN t.candidate_votes
    THEN Outcome(t, {}, FALSE)
    ELSE LET votes == t.candidate_votes[digest] IN
         IF ~is_availability_guarantor_of(from, votes.group_id)
         THEN Outcome(t,
                      {UnauthorizedStatement(
                          [signature |-> signature,
                           statement |-> [kind |-> "Available", digest |-> digest]])},
                      FALSE)
         ELSE Outcome(
                 [t EXCEPT !.candidate_votes[digest].availability_votes =
                               (from :> signature) @@ @],
                 {}, FALSE)

\* ------------------------------------------------------------------------
\* Table::import_candidate

\* A faulty variant: every record is filed under group 1.
NewCandidateDataOfFirstGroup(group, candidate) ==
    [group_id |-> 1,
     candidate |-> candidate,
     validity_votes |-> EmptyMap,
     availability_votes |-> EmptyMap,
     indicated_bad_by |-> <<>>]

\* The record created for a digest seen for the first time.
NewCandidateData(group, candidate) ==
    [group_id |-> group,
     candidate |-> candidate,
     validity_votes |-> EmptyMap,
     availability_votes |-> EmptyMap,
     indicated_bad_by |-> <<>>]

\* A faulty variant: the proposal is noted and no record is created.
NoteProposalWithoutRecord(t, from, group, candidate, digest, signature) ==
    [t EXCEPT !.proposed_candidates = @ @@ (from :> <<digest, signature>>)]

\* A faulty variant: the record is created anew whether or not one exists.
NoteProposalReplacing(t, from, group, candidate, digest, signature) ==
    [t EXCEPT
        !.proposed_candidates = @ @@ (from :> <<digest, signature>>),
        !.candidate_votes = (digest :> NewCandidateData(group, candidate)) @@ @]

\* Entry::Vacant: note the proposal and create the record unless one exists.
NoteProposal(t, from, group, candidate, digest, signature) ==
    [t EXCEPT
        !.proposed_candidates = @ @@ (from :> <<digest, signature>>),
        !.candidate_votes =
            IF digest \in DOMAIN @
            THEN @
            ELSE @ @@ (digest :> NewCandidateData(group, candidate))]

\* A faulty variant: the proposal is noted before the membership check.
UnauthorizedCandidateNoted(t, from, candidate, signature) ==
    Outcome(NoteProposal(t, from, candidate_group(candidate), candidate,
                         candidate_digest(candidate), signature),
            {UnauthorizedStatement(
                [signature |-> signature,
                 statement |-> [kind |-> "Candidate", candidate |-> candidate]])},
            FALSE)

\* The proposer is no member of the candidate's group.
UnauthorizedCandidate(t, from, candidate, signature) ==
    Outcome(t,
            {UnauthorizedStatement(
                [signature |-> signature,
                 statement |-> [kind |-> "Candidate", candidate |-> candidate]])},
            FALSE)

\* A faulty variant: the two candidates of the proof change places.
SecondCandidateSwapped(t, from, old_digest, candidate, signature) ==
    IF old_digest \notin DOMAIN t.candidate_votes
    THEN Outcome(t, {}, TRUE)
    ELSE Outcome(t,
                 {MultipleCandidates(
                     <<candidate, signature>>,
                     <<t.candidate_votes[old_digest].candidate,
                       t.proposed_candidates[from][2]>>)},
                 FALSE)

\* A faulty variant: the second candidate's implicit vote is cast all the same.
SecondCandidateVoting(t, from, old_digest, candidate, signature) ==
    IF old_digest \notin DOMAIN t.candidate_votes
    THEN Outcome(t, {}, TRUE)
    ELSE Outcome(validity_vote(t, from, candidate_digest(candidate),
                               Issued(signature)).table,
                 {MultipleCandidates(
                     <<t.candidate_votes[old_digest].candidate,
                       t.proposed_candidates[from][2]>>,
                     <<candidate, signature>>)},
                 FALSE)

\* A faulty variant: the second candidate takes the place of the first in
\* proposed_candidates.
SecondCandidateReplacing(t, from, old_digest, candidate, signature) ==
    IF old_digest \notin DOMAIN t.candidate_votes
    THEN Outcome(t, {}, TRUE)
    ELSE Outcome([t EXCEPT !.proposed_candidates =
                               (from :> <<candidate_digest(candidate), signature>>) @@ @],
                 {MultipleCandidates(
                     <<t.candidate_votes[old_digest].candidate,
                       t.proposed_candidates[from][2]>>,
                     <<candidate, signature>>)},
                 FALSE)

\* Entry::Occupied with another digest: fetch the old candidate (expect: the
\* record of a proposed digest exists) and note misbehavior.
SecondCandidate(t, from, old_digest, candidate, signature) ==
    IF old_digest \notin DOMAIN t.candidate_votes
    THEN Outcome(t, {}, TRUE)
    ELSE Outcome(t,
                 {MultipleCandidates(
                     <<t.candidate_votes[old_digest].candidate,
                       t.proposed_candidates[from][2]>>,
                     <<candidate, signature>>)},
                 FALSE)

\* A faulty variant: a first proposal is noted and its implicit vote is not
\* cast.
import_candidate_without_vote(t, from, candidate, signature) ==
    LET group == candidate_group(candidate) IN
    IF ~is_member_of(from, group)
    THEN UnauthorizedCandidate(t, from, candidate, signature)
    ELSE LET digest == candidate_digest(candidate) IN
         IF from \in DOMAIN t.proposed_candidates
         THEN LET old_digest == t.proposed_candidates[from][1] IN
              IF old_digest # digest
              THEN SecondCandidate(t, from, old_digest, candidate, signature)
              ELSE validity_vote(t, from, digest, Issued(signature))
         ELSE Outcome(NoteProposal(t, from, group, candidate, digest, signature),
                      {}, FALSE)

import_candidate(t, from, candidate, signature) ==
    LET group == candidate_group(candidate) IN
    IF ~is_member_of(from, group)
    THEN UnauthorizedCandidate(t, from, candidate, signature)
    ELSE LET digest == candidate_digest(candidate) IN
         IF from \in DOMAIN t.proposed_candidates
         THEN LET old_digest == t.proposed_candidates[from][1] IN
              IF old_digest # digest
              THEN SecondCandidate(t, from, old_digest, candidate, signature)
              ELSE validity_vote(t, from, digest, Issued(signature))
         ELSE validity_vote(NoteProposal(t, from, group, candidate, digest, signature),
                            from, digest, Issued(signature))

\* ------------------------------------------------------------------------
\* Table::import_statement

\* The handler the statement kind dispatches to.
Dispatch(t, signer, statement) ==
    CASE statement.statement.kind = "Candidate" ->
            import_candidate(t, signer, statement.statement.candidate, statement.signature)
      [] statement.statement.kind = "Valid" ->
            validity_vote(t, signer, statement.statement.digest,
                          ValidVote(statement.signature))
      [] statement.statement.kind = "Invalid" ->
            validity_vote(t, signer, statement.statement.digest,
                          InvalidVote(statement.signature))
      [] statement.statement.kind = "Available" ->
            availability_vote(t, signer, statement.statement.digest, statement.signature)

\* A faulty variant: a proof already noted for the signer is kept.
NoteMisbehaviorKeepingFirst(t, signer, mis) ==
    IF mis = {}
    THEN t
    ELSE [t EXCEPT !.detected_misbehavior =
                       @ @@ (signer :> (CHOOSE m \in mis : TRUE))]

\* A faulty variant: the proof is noted for the signer and for every validator
\* with a proposal noted.
NoteMisbehaviorOfProposers(t, signer, mis) ==
    IF mis = {}
    THEN t
    ELSE [t EXCEPT !.detected_misbehavior =
                       [v \in {signer} \cup DOMAIN t.proposed_candidates
                           |-> CHOOSE m \in mis : TRUE] @@ @]

\* A faulty variant: the proof noted takes the place of all proofs.
NoteMisbehaviorAlone(t, signer, mis) ==
    IF mis = {}
    THEN t
    ELSE [t EXCEPT !.detected_misbehavior = (signer :> (CHOOSE m \in mis : TRUE))]

\* detected_misbehavior.insert(signer, misbehavior) when one was returned.
NoteMisbehavior(t, signer, mis) ==
    IF mis = {}
    THEN t
    ELSE [t EXCEPT !.detected_misbehavior =
                       (signer :> (CHOOSE m \in mis : TRUE)) @@ @]

\* A faulty variant: a statement whose signer cannot be recovered is handled
\* as one of the validator the signature names.
import_statement_unsigned(t, statement) ==
    LET signer == statement.signature[1]
        handled == Dispatch(t, signer, statement)
    IN IF handled.panic
       THEN handled
       ELSE Outcome(NoteMisbehavior(handled.table, signer, handled.mis),
                    handled.mis, FALSE)

import_statement(t, statement) ==
    IF statement_signer(statement) = {}
    THEN Outcome(t, {}, FALSE)
    ELSE LET signer == CHOOSE v \in statement_signer(statement) : TRUE
             handled == Dispatch(t, signer, statement)
         IN IF handled.panic
            THEN handled
            ELSE Outcome(NoteMisbehavior(handled.table, signer, handled.mis),
                         handled.mis, FALSE)

\* ------------------------------------------------------------------------
\* Table::drain_misbehavior: the table left behind and the map returned.

\* A faulty variant: the map is returned and left in place.
drain_misbehavior_copying(t) ==
    [table |-> t, returned |-> t.detected_misbehavior]

drain_misbehavior(t) ==
    [table |-> [t EXCEPT !.detected_misbehavior = EmptyMap],
     returned |-> t.detected_misbehavior]

\* ------------------------------------------------------------------------
\* Table::proposed_candidates

\* All orders in which a HashMap with these keys may be iterated.
RECURSIVE Orders(_)
Orders(keys) ==
    IF keys = {}
    THEN {<<>>}
    ELSE UNION {{<<k>> \o rest : rest \in Orders(keys \ {k})} : k \in keys}

\* A faulty variant: every record is taken for includable.
BestStepUnfiltered(requisite, best, candidate_data) ==
    IF candidate_data.group_id \in DOMAIN best
    THEN IF CandidateLt(best[candidate_data.group_id], candidate_data.candidate)
         THEN [best EXCEPT ![candidate_data.group_id] = candidate_data.candidate]
         ELSE best
    ELSE best @@ (candidate_data.group_id :> candidate_data.candidate)

\* A faulty variant: the comparison turned around, the lesser candidate kept.
BestStepLesser(requisite, best, candidate_data) ==
    LET t == requisite_votes(requisite, candidate_data.group_id) IN
    IF ~can_be_included(candidate_data, t[1], t[2])
    THEN best
    ELSE IF candidate_data.group_id \in DOMAIN best
         THEN IF CandidateLt(candidate_data.candidate, best[candidate_data.group_id])
              THEN [best EXCEPT ![candidate_data.group_id] = candidate_data.candidate]
              ELSE best
         ELSE best @@ (candidate_data.group_id :> candidate_data.candidate)

\* One turn of the loop: the BTreeMap after looking at one record.
BestStep(requisite, best, candidate_data) ==
    LET t == requisite_votes(requisite, candidate_data.group_id) IN
    IF ~can_be_included(candidate_data, t[1], t[2])
    THEN best
    ELSE IF candidate_data.group_id \in DOMAIN best
         THEN IF CandidateLt(best[candidate_data.group_id], candidate_data.candidate)
              THEN [best EXCEPT ![candidate_data.group_id] = candidate_data.candidate]
              ELSE best
         ELSE best @@ (candidate_data.group_id :> candidate_data.candidate)

\* best_candidates after the loop over the records in the given order.
RECURSIVE BestCandidates(_, _, _)
BestCandidates(t, requisite, order) ==
    IF order = <<>>
    THEN EmptyMap
    ELSE BestStep(requisite,
                  BestCandidates(t, requisite, SubSeq(order, 1, Len(order) - 1)),
                  t.candidate_votes[order[Len(order)]])

\* A faulty variant: the values by descending key.
RECURSIVE ValuesDescending(_)
ValuesDescending(best) ==
    IF DOMAIN best = {}
    THEN <<>>
    ELSE LET greatest == CHOOSE g \in DOMAIN best : \A h \in DOMAIN best : g >= h
         IN <<best[greatest]>>
                \o ValuesDescending([g \in DOMAIN best \ {greatest} |-> best[g]])

\* BTreeMap::values(): the values by ascending key.
RECURSIVE ValuesAscending(_)
ValuesAscending(best) ==
    IF DOMAIN best = {}
    THEN <<>>
    ELSE LET least == CHOOSE g \in DOMAIN best : \A h \in DOMAIN best : g <= h
         IN <<best[least]>>
                \o ValuesAscending([g \in DOMAIN best \ {least} |-> best[g]])

\* The list returned when the records are iterated in the given order.
ProposedIn(t, requisite, order) == ValuesAscending(BestCandidates(t, requisite, order))

\* The lists proposed_candidates may return in a context with the given
\* thresholds: one per iteration order.
proposed_candidates(t, requisite) ==
    {ProposedIn(t, requisite, order) : order \in Orders(DOMAIN t.candidate_votes)}

\* Table::candidates_in_group
candidates_in_group(t, group_id) ==
    {t.candidate_votes[d] : d \in {x \in DOMAIN t.candidate_votes :
                                      t.candidate_votes[x].group_id = group_id}}

\* A faulty variant: a query empties detected_misbehavior as it reads.
AfterQueryDrained(t) == [t EXCEPT !.detected_misbehavior = EmptyMap]

\* proposed_candidates and candidates_in_group take &self: the table after a
\* query is the table it was called on.
AfterQuery(t) == t

\* ------------------------------------------------------------------------
\* The state machine.

\* The record the unit test starts from, with no votes.
FreshData == NewCandidateData(1, <<1, 1>>)

InitTable ==
    /\ table = create
    /\ panicked = FALSE
    /\ ncalls = 0
    /\ first_candidate = EmptyMap
    /\ data = FreshData
    /\ included = <<>>
    /\ imported = {}
    /\ orderly = TRUE
    /\ last_call = [op |-> "create", returned |-> <<>>]

\* No validator is followed.
Init ==
    /\ InitTable
    /\ honest = [who |-> 0, signed |-> {}]

\* History: a Candidate statement that noted a proposal for its signer.
NotedProposal(t, statement, after) ==
    {v \in statement_signer(statement) :
        /\ statement.statement.kind = "Candidate"
        /\ v \notin DOMAIN t.proposed_candidates
        /\ v \in DOMAIN after.proposed_candidates}

\* table.import_statement(&context, statement): the table after the call, or
\* the panic it ended in.
Imports(statement) ==
    LET done == import_statement(table, statement) IN
    /\ table' = done.table
    /\ panicked' = done.panic
    /\ first_candidate' =
          [v \in NotedProposal(table, statement, done.table)
              |-> statement.statement.candidate] @@ first_candidate

ImportStatement(statement) ==
    /\ ~panicked
    /\ ncalls < MaxCalls
    /\ Imports(statement)
    /\ ncalls' = ncalls + 1
    /\ UNCHANGED <<data, included, imported, orderly, last_call, honest>>

DrainMisbehavior ==
    /\ ~panicked
    /\ ncalls < MaxCalls
    /\ table' = drain_misbehavior(table).table
    /\ ncalls' = ncalls + 1
    /\ UNCHANGED <<panicked, first_candidate, data, included, imported, orderly,
                   last_call, honest>>

Next ==
    \/ \E statement \in SignedStatements : ImportStatement(statement)
    \/ DrainMisbehavior

Spec == Init /\ [][Next]_vars

\* ------------------------------------------------------------------------
\* can_be_included on records built by hand (tests::candidate_can_be_included):
\* the fields are set directly, so a record may hold votes no import would
\* leave, such as an Invalid vote without an accuser.

TableIdle ==
    UNCHANGED <<table, panicked, ncalls, first_candidate, imported, orderly, last_call,
                honest>>

\* candidate.validity_votes.insert(v, vote)
DataInsertValidity(v, vote) ==
    /\ data' = [data EXCEPT !.validity_votes = (v :> vote) @@ @]
    /\ included' = <<>>
    /\ TableIdle

\* candidate.availability_votes.insert(v, signature)
DataInsertAvailability(v, signature) ==
    /\ data' = [data EXCEPT !.availability_votes = (v :> signature) @@ @]
    /\ included' = <<>>
    /\ TableIdle

\* candidate.indicated_bad_by.push(v)
DataPushBad(v) ==
    /\ Len(data.indicated_bad_by) < MaxAccusers
    /\ data' = [data EXCEPT !.indicated_bad_by = Append(@, v)]
    /\ included' = <<>>
    /\ TableIdle

\* candidate.can_be_included(validity_threshold, availability_threshold)
DataCanBeIncluded(validity_threshold, availability_threshold) ==
    /\ included' = <<[validity_threshold |-> validity_threshold,
                      availability_threshold |-> availability_threshold,
                      result |-> can_be_included(data, validity_threshold,
                                                 availability_threshold)]>>
    /\ UNCHANGED data
    /\ TableIdle

DataNext ==
    \/ \E v \in {1, 2, 3}, kind \in {"Issued", "Valid", "Invalid"} :
            DataInsertValidity(v, [kind |-> kind, sig |-> <<v, 1>>])
    \/ \E v \in {1, 2, 3} : DataInsertAvailability(v, <<v, 1>>)
    \/ \E v \in {1, 2, 3} : DataPushBad(v)
    \/ \E vt \in 0 .. MaxThreshold, at \in 0 .. MaxThreshold : DataCanBeIncluded(vt, at)

SpecData == Init /\ [][DataNext]_vars

\* ------------------------------------------------------------------------
\* Sets of well-formed, non-conflicting statements, imported one statement at
\* a time in whatever order; the set is kept to replay it in the other orders.

\* The statement is a Valid, Invalid or Available vote.
IsVote(statement) == statement.statement.kind # "Candidate"

\* Signed by a registered validator and, for a Candidate, by a member of the
\* candidate's group.
WellFormed(statement) ==
    \E v \in statement_signer(statement) :
        /\ v \in DOMAIN validators
        /\ statement.statement.kind = "Candidate"
              => is_member_of(v, candidate_group(statement.statement.candidate))

\* One validator proposes two candidates or casts two kinds of validity vote
\* on one digest, the Issued vote of its own proposal being one kind.
Conflicting(statements) ==
    \E a, b \in statements :
        /\ statement_signer(a) = statement_signer(b)
        /\ \/ /\ a.statement.kind = "Candidate"
              /\ b.statement.kind = "Candidate"
              /\ a.statement.candidate # b.statement.candidate
           \/ /\ a.statement.kind = "Valid"
              /\ b.statement.kind = "Invalid"
              /\ a.statement.digest = b.statement.digest
           \/ /\ a.statement.kind = "Candidate"
              /\ b.statement.kind \in {"Valid", "Invalid"}
              /\ candidate_digest(a.statement.candidate) = b.statement.digest

ImportOfSet(statement) ==
    /\ ~panicked
    /\ Cardinality(imported) < MaxSet
    /\ statement \notin imported
    /\ WellFormed(statement)
    /\ ~Conflicting(imported \cup {statement})
    /\ Imports(statement)
    /\ imported' = imported \cup {statement}
    /\ orderly' = (orderly /\ (IsVote(statement)
                                  => statement.statement.digest
                                        \in DOMAIN table.candidate_votes))
    /\ UNCHANGED <<ncalls, data, included, last_call, honest>>

OrderNext == \E statement \in SignedStatements : ImportOfSet(statement)

SpecOrder == Init /\ [][OrderNext]_vars

\* ------------------------------------------------------------------------
\* The four public operations of a table, each leaving its name and what it
\* returned in last_call.

CallImportStatement(statement) ==
    /\ ~panicked
    /\ ncalls < MaxQueries
    /\ Imports(statement)
    /\ ncalls' = ncalls + 1
    /\ last_call' = [op |-> "import_statement", returned |-> <<>>]
    /\ UNCHANGED <<data, included, imported, orderly, honest>>

CallDrainMisbehavior ==
    /\ ~panicked
    /\ ncalls < MaxQueries
    /\ table' = drain_misbehavior(table).table
    /\ ncalls' = ncalls + 1
    /\ last_call' = [op |-> "drain_misbehavior",
                     returned |-> drain_misbehavior(table).returned]
    /\ UNCHANGED <<panicked, first_candidate, data, included, imported, orderly, honest>>

\* table.proposed_candidates(&context), under each threshold configuration
\* and each iteration order of the records.
CallProposedCandidates(requisite) ==
    /\ ~panicked
    /\ ncalls < MaxQueries
    /\ \E list \in proposed_candidates(table, requisite) :
          last_call' = [op |-> "proposed_candidates", returned |-> list]
    /\ table' = AfterQuery(table)
    /\ ncalls' = ncalls + 1
    /\ UNCHANGED <<panicked, first_candidate, data, included, imported, orderly, honest>>

\* table.candidates_in_group(group_id).
CallCandidatesInGroup(group_id) ==
    /\ ~panicked
    /\ ncalls < MaxQueries
    /\ last_call' = [op |-> "candidates_in_group",
                     returned |-> candidates_in_group(table, group_id)]
    /\ table' = AfterQuery(table)
    /\ ncalls' = ncalls + 1
    /\ UNCHANGED <<panicked, first_candidate, data, included, imported, orderly, honest>>

QueryNext ==
    \/ \E statement \in SignedStatements : CallImportStatement(statement)
    \/ CallDrainMisbehavior
    \/ \E requisite \in RequisiteChoices : CallProposedCandidates(requisite)
    \/ \E group_id \in GroupIds : CallCandidatesInGroup(group_id)

SpecQuery == Init /\ [][QueryNext]_vars

\* ------------------------------------------------------------------------
\* A table on which one validator, honest.who, keeps to the rules while the
\* others import what they like.

InitHonest ==
    /\ InitTable
    /\ \E v \in ValidatorIds : honest = [who |-> v, signed |-> {}]

\* The signer is authorized for the statement as the table checks it: a
\* member of the candidate's group, and for a vote on a digest with a record
\* a member, or for Available an availability guarantor, of the record's group.
Authorized(t, v, statement) ==
    CASE statement.statement.kind = "Candidate" ->
            is_member_of(v, candidate_group(statement.statement.candidate))
      [] statement.statement.kind \in {"Valid", "Invalid"} ->
            statement.statement.digest \in DOMAIN t.candidate_votes
                => is_member_of(v, t.candidate_votes[statement.statement.digest].group_id)
      [] statement.statement.kind = "Available" ->
            statement.statement.digest \in DOMAIN t.candidate_votes
                => is_availability_guarantor_of(
                       v, t.candidate_votes[statement.statement.digest].group_id)

\* The followed validator signs a statement it is authorized for that, with
\* what it has signed, proposes one candidate at most and casts one kind of
\* validity vote per digest at most, its proposal counted.
HonestImport(statement) ==
    /\ ~panicked
    /\ ncalls < MaxHonest
    /\ statement_signer(statement) = {honest.who}
    /\ Authorized(table, honest.who, statement)
    /\ ~Conflicting(honest.signed \cup {statement})
    /\ Imports(statement)
    /\ ncalls' = ncalls + 1
    /\ honest' = [honest EXCEPT !.signed = @ \cup {statement}]
    /\ UNCHANGED <<data, included, imported, orderly, last_call>>

\* Another validator, or nobody, signs any statement.
OtherImport(statement) ==
    /\ ~panicked
    /\ ncalls < MaxHonest
    /\ statement_signer(statement) # {honest.who}
    /\ Imports(statement)
    /\ ncalls' = ncalls + 1
    /\ UNCHANGED <<data, included, imported, orderly, last_call, honest>>

HonestDrain ==
    /\ ~panicked
    /\ ncalls < MaxHonest
    /\ table' = drain_misbehavior(table).table
    /\ ncalls' = ncalls + 1
    /\ UNCHANGED <<panicked, first_candidate, data, included, imported, orderly,
                   last_call, honest>>

HonestNext ==
    \/ \E statement \in SignedStatements : HonestImport(statement)
    \/ \E statement \in SignedStatements : OtherImport(statement)
    \/ HonestDrain

SpecHonest == InitHonest /\ [][HonestNext]_vars

\* ------------------------------------------------------------------------
\* Claims.

\* The records of the table, by digest.
Records == table.candidate_votes

\* The validators with a validity vote of the given kind on a record.
VotersOfKind(record, kind) ==
    {v \in DOMAIN record.validity_votes : record.validity_votes[v].kind = kind}

\* The threshold predicate of proposal selection, for the record of digest d
\* under the thresholds r.
MeetsThresholds(r, d) ==
    /\ Len(Records[d].indicated_bad_by) = 0
    /\ Cardinality(DOMAIN Records[d].validity_votes) >= r[Records[d].group_id][1]
    /\ Cardinality(DOMAIN Records[d].availability_votes) >= r[Records[d].group_id][2]

\* The candidate is an element of the list.
InList(c, list) == \E i \in 1 .. Len(list) : list[i] = c

\* The candidates of the records of group g that meet the thresholds r.
IncludableIn(r, g) ==
    {Records[d].candidate : d \in {x \in DOMAIN Records :
                                      Records[x].group_id = g /\ MeetsThresholds(r, x)}}

\* C1 as stated: a record's candidate is in the output of proposed_candidates
\* if and only if the record satisfies the threshold predicate.
C1_InOutputIffThresholds ==
    \A r \in RequisiteChoices : \A out \in proposed_candidates(table, r) :
        \A d \in DOMAIN Records :
            InList(Records[d].candidate, out) <=> MeetsThresholds(r, d)

\* C1 amended: a record's candidate is in the output of proposed_candidates if
\* and only if the record satisfies the threshold predicate and no other record
\* of its group that satisfies it has a greater candidate.
C1_InOutputIffBestOverThresholds ==
    \A r \in RequisiteChoices : \A out \in proposed_candidates(table, r) :
        \A d \in DOMAIN Records :
            InList(Records[d].candidate, out)
                <=> /\ MeetsThresholds(r, d)
                    /\ \A e \in DOMAIN Records :
                          (Records[e].group_id = Records[d].group_id
                              /\ MeetsThresholds(r, e))
                              => ~CandidateLt(Records[d].candidate, Records[e].candidate)

\* C1 witness: under thresholds of one validity vote and one availability
\* vote, a record satisfies the threshold predicate and is left out of the
\* output.
C1_Witness ==
    \E r \in RequisiteChoices : \E d \in DOMAIN Records :
        /\ r[Records[d].group_id] = <<1, 1>>
        /\ MeetsThresholds(r, d)
        /\ \E out \in proposed_candidates(table, r) : ~InList(Records[d].candidate, out)

\* C2: the answer of can_be_included(V_t, A_t) is true exactly when the record
\* has no accuser, its Issued, Valid and Invalid votes together number at least
\* V_t and its availability votes number at least A_t.
C2_CanBeIncludedExactly ==
    \A i \in 1 .. Len(included) :
        included[i].result
            <=> /\ Len(data.indicated_bad_by) = 0
                /\ Cardinality(VotersOfKind(data, "Issued"))
                      + Cardinality(VotersOfKind(data, "Valid"))
                      + Cardinality(VotersOfKind(data, "Invalid"))
                        >= included[i].validity_threshold
                /\ Cardinality(DOMAIN data.availability_votes)
                        >= included[i].availability_threshold

\* C2 witness: a record is answered includable with exactly V_t validity votes,
\* one of them Invalid, and exactly A_t > 0 availability votes.
C2_Witness ==
    /\ Len(included) = 1
    /\ included[1].result
    /\ VotersOfKind(data, "Invalid") # {}
    /\ Cardinality(DOMAIN data.validity_votes) = included[1].validity_threshold
    /\ Cardinality(DOMAIN data.availability_votes) = included[1].availability_threshold
    /\ included[1].availability_threshold > 0

\* C3: proposed_candidates returns at most one candidate per group, and for
\* each group with an includable record it returns the maximum, under the
\* Candidate order, of the candidates of that group's includable records.
C3_OnePerGroupTheMaximum ==
    \A r \in RequisiteChoices : \A out \in proposed_candidates(table, r) :
        /\ \A i, j \in 1 .. Len(out) :
              i # j => candidate_group(out[i]) # candidate_group(out[j])
        /\ \A g \in GroupIds :
              IncludableIn(r, g) # {}
                  => \E i \in 1 .. Len(out) :
                        /\ out[i] \in IncludableIn(r, g)
                        /\ \A c \in IncludableIn(r, g) : c = out[i] \/ CandidateLt(c, out[i])

\* C3 witness: a group has two includable records and the output holds one
\* candidate of that group.
C3_Witness ==
    \E r \in RequisiteChoices : \E g \in GroupIds, out \in proposed_candidates(table, r) :
        /\ Cardinality(IncludableIn(r, g)) = 2
        /\ Cardinality({i \in 1 .. Len(out) : candidate_group(out[i]) = g}) = 1

\* C4: the list returned by proposed_candidates is in strictly ascending order
\* of the GroupId of the selected candidates' records.
C4_AscendingGroups ==
    \A r \in RequisiteChoices : \A out \in proposed_candidates(table, r) :
        \A i, j \in 1 .. Len(out) :
            i < j => Records[candidate_digest(out[i])].group_id
                        < Records[candidate_digest(out[j])].group_id

\* C4 witness: candidates of two groups are returned, in a context where the
\* second group asks for an availability vote.
C4_Witness ==
    \E r \in RequisiteChoices :
        /\ r[2] = <<1, 1>>
        /\ \E out \in proposed_candidates(table, r) : Len(out) = 2

\* The signed statements of the given kinds.
SignedOfKind(kinds) == {st \in SignedStatements : st.statement.kind \in kinds}

\* The call whose outcome is `done` returned and left exactly this proof noted
\* for v.
Notes(done, v, proof) ==
    /\ ~done.panic
    /\ v \in DOMAIN done.table.detected_misbehavior
    /\ done.table.detected_misbehavior[v] = proof

\* C6: when a validator v with proposed[v] = (d', s') imports a Candidate
\* statement (c, s) for a group it is a member of, with a digest other than d',
\* the import returns, misbehavior[v] becomes MultipleCandidates with first =
\* (the candidate v first proposed, s') and second = (c, s), and proposed and
\* the records with all their votes stay as they were.
C6_SecondCandidateIsMisbehavior ==
    \A st \in SignedOfKind({"Candidate"}) : \A v \in statement_signer(st) :
        ( /\ ~panicked
          /\ is_member_of(v, candidate_group(st.statement.candidate))
          /\ v \in DOMAIN table.proposed_candidates
          /\ table.proposed_candidates[v][1] # candidate_digest(st.statement.candidate) )
        => LET done == import_statement(table, st) IN
           /\ Notes(done, v, [kind |-> "MultipleCandidates",
                              first |-> <<first_candidate[v],
                                          table.proposed_candidates[v][2]>>,
                              second |-> <<st.statement.candidate, st.signature>>])
           /\ done.table.proposed_candidates = table.proposed_candidates
           /\ done.table.candidate_votes = Records

\* C6 witness: a validator stands accused of MultipleCandidates for two
\* different candidates signed with two different signatures.
C6_Witness ==
    \E v \in DOMAIN table.detected_misbehavior :
        /\ table.detected_misbehavior[v].kind = "MultipleCandidates"
        /\ table.detected_misbehavior[v].first[1] # table.detected_misbehavior[v].second[1]
        /\ table.detected_misbehavior[v].first[2] # table.detected_misbehavior[v].second[2]
        /\ table.detected_misbehavior[v].first[1] = first_candidate[v]

\* C7: when a validator v imports a Candidate statement for a candidate of a
\* group it is no member of, misbehavior[v] becomes UnauthorizedStatement
\* carrying that signed statement, and proposed and the records are unchanged.
C7_UnauthorizedCandidate ==
    \A st \in SignedOfKind({"Candidate"}) : \A v \in statement_signer(st) :
        ( /\ ~panicked
          /\ ~is_member_of(v, candidate_group(st.statement.candidate)) )
        => LET done == import_statement(table, st) IN
           /\ Notes(done, v, [kind |-> "UnauthorizedStatement", statement |-> st])
           /\ done.table.proposed_candidates = table.proposed_candidates
           /\ done.table.candidate_votes = Records

\* C7 witness: a validator registered for another group stands accused of an
\* unauthorized Candidate statement and has no proposal noted.
C7_Witness ==
    \E v \in DOMAIN table.detected_misbehavior :
        /\ table.detected_misbehavior[v].kind = "UnauthorizedStatement"
        /\ table.detected_misbehavior[v].statement.statement.kind = "Candidate"
        /\ v \in DOMAIN validators
        /\ v \notin DOMAIN table.proposed_candidates

\* C8: when a validator v imports Valid(d) or Invalid(d) for a digest with a
\* record of whose group v is no member, misbehavior[v] becomes
\* UnauthorizedStatement carrying a statement of the same kind, digest and
\* signature, and the record's validity_votes and indicated_bad_by are unchanged.
C8_UnauthorizedValidityVote ==
    \A st \in SignedOfKind({"Valid", "Invalid"}) : \A v \in statement_signer(st) :
        ( /\ ~panicked
          /\ st.statement.digest \in DOMAIN Records
          /\ ~is_member_of(v, Records[st.statement.digest].group_id) )
        => LET done == import_statement(table, st)
               d == st.statement.digest
           IN
           /\ Notes(done, v,
                  [kind |-> "UnauthorizedStatement",
                   statement |-> [statement |-> [kind |-> st.statement.kind, digest |-> d],
                                  signature |-> st.signature]])
           /\ d \in DOMAIN done.table.candidate_votes
           /\ done.table.candidate_votes[d].validity_votes = Records[d].validity_votes
           /\ done.table.candidate_votes[d].indicated_bad_by = Records[d].indicated_bad_by

\* C8 witness: a validator stands accused of an unauthorized Invalid vote on a
\* record that has no accuser.
C8_Witness ==
    \E v \in DOMAIN table.detected_misbehavior :
        /\ table.detected_misbehavior[v].kind = "UnauthorizedStatement"
        /\ table.detected_misbehavior[v].statement.statement.kind = "Invalid"
        /\ table.detected_misbehavior[v].statement.statement.digest \in DOMAIN Records
        /\ Records[table.detected_misbehavior[v].statement.statement.digest]
                .indicated_bad_by = <<>>

\* C9: when a validator v imports Available(d) for a digest with a record of
\* whose group v is no availability guarantor, misbehavior[v] becomes
\* UnauthorizedStatement carrying the signed Available(d), and the record's
\* availability_votes are unchanged.
C9_UnauthorizedAvailabilityVote ==
    \A st \in SignedOfKind({"Available"}) : \A v \in statement_signer(st) :
        ( /\ ~panicked
          /\ st.statement.digest \in DOMAIN Records
          /\ ~is_availability_guarantor_of(v, Records[st.statement.digest].group_id) )
        => LET done == import_statement(table, st)
               d == st.statement.digest
           IN
           /\ Notes(done, v, [kind |-> "UnauthorizedStatement", statement |-> st])
           /\ d \in DOMAIN done.table.candidate_votes
           /\ done.table.candidate_votes[d].availability_votes
                  = Records[d].availability_votes

\* C9 witness: a member of a record's group, who proposed it, stands accused
\* of an unauthorized Available vote on it, and the record has no such vote.
C9_Witness ==
    \E v \in DOMAIN table.detected_misbehavior :
        /\ table.detected_misbehavior[v].kind = "UnauthorizedStatement"
        /\ table.detected_misbehavior[v].statement.statement.kind = "Available"
        /\ LET d == table.detected_misbehavior[v].statement.statement.digest IN
            /\ d \in DOMAIN Records
            /\ is_member_of(v, Records[d].group_id)
            /\ v \in DOMAIN table.proposed_candidates
            /\ table.proposed_candidates[v][1] = d
            /\ v \notin DOMAIN Records[d].availability_votes

\* The explicit validity vote kind other than the given one.
OtherKind(kind) == IF kind = "Valid" THEN "Invalid" ELSE "Valid"

\* C10: when an authorized validator v whose stored vote on d is an explicit
\* Valid (Invalid) imports Invalid(d) (Valid(d)), misbehavior[v] becomes
\* ValidityDoubleVote(ValidityAndInvalidity(d, signature of the Valid vote,
\* signature of the Invalid vote)), whichever of the two was stored first.
C10_ValidityAndInvalidity ==
    \A st \in SignedOfKind({"Valid", "Invalid"}) : \A v \in statement_signer(st) :
        ( /\ ~panicked
          /\ st.statement.digest \in DOMAIN Records
          /\ is_member_of(v, Records[st.statement.digest].group_id)
          /\ v \in DOMAIN Records[st.statement.digest].validity_votes
          /\ Records[st.statement.digest].validity_votes[v].kind
                  = OtherKind(st.statement.kind) )
        => LET stored == Records[st.statement.digest].validity_votes[v].sig IN
           Notes(import_statement(table, st), v,
              [kind |-> "ValidityDoubleVote",
               proof |-> [kind |-> "ValidityAndInvalidity",
                          args |-> IF st.statement.kind = "Valid"
                                   THEN <<st.statement.digest, st.signature, stored>>
                                   ELSE <<st.statement.digest, stored, st.signature>>]])

\* C10 witness: a validator whose stored vote is Invalid stands accused of
\* ValidityAndInvalidity with two different signatures, the stored one third.
C10_Witness ==
    \E v \in DOMAIN table.detected_misbehavior :
        /\ table.detected_misbehavior[v].kind = "ValidityDoubleVote"
        /\ table.detected_misbehavior[v].proof.kind = "ValidityAndInvalidity"
        /\ LET args == table.detected_misbehavior[v].proof.args IN
            /\ args[2] # args[3]
            /\ args[1] \in DOMAIN Records
            /\ v \in DOMAIN Records[args[1]].validity_votes
            /\ Records[args[1]].validity_votes[v] = [kind |-> "Invalid", sig |-> args[3]]

\* The run that imports the statements of a sequence into an empty table: the
\* table it ends with, or the panic it stops at.
RECURSIVE ImportAll(_)
ImportAll(order) ==
    IF order = <<>>
    THEN [table |-> create, panic |-> FALSE]
    ELSE LET before == ImportAll(SubSeq(order, 1, Len(order) - 1)) IN
         IF before.panic
         THEN before
         ELSE LET done == import_statement(before.table, order[Len(order)]) IN
              [table |-> done.table, panic |-> done.panic]

\* What a run yields in a context with thresholds r: the lists
\* proposed_candidates may return, none after a panic.
Yield(r, run) ==
    [panic |-> run.panic,
     lists |-> IF run.panic THEN {} ELSE proposed_candidates(run.table, r)]

\* Every signer of the set is authorized: a proposer is a member of its
\* candidate's group, a voter a member (for Available: an availability
\* guarantor) of the group of a candidate of the set with the digest voted on.
AllAuthorized(statements) ==
    \A st \in statements : \A v \in statement_signer(st) :
        IF st.statement.kind = "Candidate"
        THEN is_member_of(v, candidate_group(st.statement.candidate))
        ELSE \E c \in statements :
                /\ c.statement.kind = "Candidate"
                /\ candidate_digest(c.statement.candidate) = st.statement.digest
                /\ IF st.statement.kind = "Available"
                   THEN is_availability_guarantor_of(
                            v, candidate_group(c.statement.candidate))
                   ELSE is_member_of(v, candidate_group(c.statement.candidate))

\* C5: for a set of well-formed, non-conflicting statements with every signer
\* authorized, importing the set into an empty table in any order yields the
\* proposed_candidates list the order taken yields.
C5_AnyOrderSameProposal ==
    AllAuthorized(imported)
        => \A r \in RequisiteChoices : \A order \in Orders(imported) :
              Yield(r, ImportAll(order)) = Yield(r, [table |-> table, panic |-> panicked])

\* C5 witness: a set of such statements was imported without a panic, an
\* Available vote of it arrived before the Candidate statement of its digest,
\* and the record created since holds no availability vote of the voter.
C5_Witness ==
    /\ AllAuthorized(imported)
    /\ ~panicked
    /\ ~orderly
    /\ \E st \in imported : \E v \in statement_signer(st) :
          /\ st.statement.kind = "Available"
          /\ st.statement.digest \in DOMAIN Records
          /\ v \notin DOMAIN Records[st.statement.digest].availability_votes

\* The proof against an Issued vote (c, issued) and an explicit vote of the
\* given kind on d signed `explicit`.
IssuedAndExplicit(kind, c, issued, d, explicit) ==
    [kind |-> "ValidityDoubleVote",
     proof |-> [kind |-> IF kind = "Valid" THEN "IssuedAndValidity"
                                           ELSE "IssuedAndInvalidity",
                args |-> <<<<c, issued>>, <<d, explicit>>>>]]

\* C11: when a validator v whose stored vote on d is the Issued(s_i) of its
\* proposal imports Valid(d) or Invalid(d) signed s_e, and when a validator v
\* whose stored vote on d is Valid(s_e) or Invalid(s_e) imports, having proposed
\* no candidate of another digest, a Candidate statement signed s_i for a
\* candidate of digest d of a group it is a member of, misbehavior[v] becomes
\* IssuedAndValidity((c, s_i), (d, s_e)), respectively IssuedAndInvalidity, with
\* c the candidate stored in records[d].
C11_IssuedAndExplicitVote ==
    /\ \A st \in SignedOfKind({"Valid", "Invalid"}) : \A v \in statement_signer(st) :
          LET d == st.statement.digest IN
          ( /\ ~panicked
            /\ d \in DOMAIN Records
            /\ v \in DOMAIN Records[d].validity_votes
            /\ Records[d].validity_votes[v].kind = "Issued" )
          => Notes(import_statement(table, st), v,
                   IssuedAndExplicit(st.statement.kind, Records[d].candidate,
                                     Records[d].validity_votes[v].sig, d, st.signature))
    /\ \A st \in SignedOfKind({"Candidate"}) : \A v \in statement_signer(st) :
          LET d == candidate_digest(st.statement.candidate) IN
          ( /\ ~panicked
            /\ is_member_of(v, candidate_group(st.statement.candidate))
            /\ v \in DOMAIN table.proposed_candidates
                  => table.proposed_candidates[v][1] = d
            /\ d \in DOMAIN Records
            /\ v \in DOMAIN Records[d].validity_votes
            /\ Records[d].validity_votes[v].kind \in {"Valid", "Invalid"} )
          => Notes(import_statement(table, st), v,
                   IssuedAndExplicit(Records[d].validity_votes[v].kind,
                                     Records[d].candidate, st.signature, d,
                                     Records[d].validity_votes[v].sig))

\* C11 witness: a validator whose stored vote on a digest is an explicit one,
\* cast before it proposed the candidate, stands accused of the pair of that
\* vote and the Issued vote of its proposal, signed differently.
C11_Witness ==
    \E v \in DOMAIN table.detected_misbehavior :
        /\ table.detected_misbehavior[v].kind = "ValidityDoubleVote"
        /\ table.detected_misbehavior[v].proof.kind = "IssuedAndInvalidity"
        /\ LET args == table.detected_misbehavior[v].proof.args IN
            /\ args[2][1] \in DOMAIN Records
            /\ v \in DOMAIN Records[args[2][1]].validity_votes
            /\ Records[args[2][1]].validity_votes[v]
                  = [kind |-> "Invalid", sig |-> args[2][2]]
            /\ v \in DOMAIN table.proposed_candidates
            /\ table.proposed_candidates[v] = <<args[2][1], args[1][2]>>
            /\ args[1][2] # args[2][2]
            /\ args[1][1] = Records[args[2][1]].candidate

\* The digest a statement is about, and the kind of validity vote it casts.
DigestOf(st) ==
    IF st.statement.kind = "Candidate"
    THEN candidate_digest(st.statement.candidate)
    ELSE st.statement.digest

VoteKindOf(st) == IF st.statement.kind = "Candidate" THEN "Issued" ELSE st.statement.kind

\* Every stored validity vote is still stored, the same, after the step.
VotesRetained ==
    \A d \in DOMAIN Records :
        /\ d \in DOMAIN table'.candidate_votes
        /\ \A v \in DOMAIN Records[d].validity_votes :
              /\ v \in DOMAIN table'.candidate_votes[d].validity_votes
              /\ table'.candidate_votes[d].validity_votes[v] = Records[d].validity_votes[v]

\* A statement of v that casts a validity vote of another kind than the one
\* stored for v on its digest notes a proof for v and leaves the record's
\* validity_votes and indicated_bad_by as they were.
ConflictLeavesVotes ==
    \A st \in SignedOfKind({"Candidate", "Valid", "Invalid"}) :
        \A v \in statement_signer(st) :
            LET d == DigestOf(st) IN
            ( /\ ~panicked
              /\ d \in DOMAIN Records
              /\ v \in DOMAIN Records[d].validity_votes
              /\ Records[d].validity_votes[v].kind # VoteKindOf(st) )
            => LET done == import_statement(table, st) IN
               /\ ~done.panic
               /\ v \in DOMAIN done.table.detected_misbehavior
               /\ d \in DOMAIN done.table.candidate_votes
               /\ done.table.candidate_votes[d].validity_votes = Records[d].validity_votes
               /\ done.table.candidate_votes[d].indicated_bad_by
                      = Records[d].indicated_bad_by

\* C12: once records[d].validity_votes[v] holds a vote, no import_statement and
\* no drain_misbehavior changes or removes it; a conflicting vote notes a proof
\* and leaves validity_votes and indicated_bad_by as they were.
C12_FirstVoteWins == [][VotesRetained]_vars /\ []ConflictLeavesVotes

\* C12 witness: a validator stands accused of a Valid and an Invalid vote on a
\* record that still holds its Valid vote and does not list it as an accuser.
C12_Witness ==
    \E v \in DOMAIN table.detected_misbehavior :
        /\ table.detected_misbehavior[v].kind = "ValidityDoubleVote"
        /\ table.detected_misbehavior[v].proof.kind = "ValidityAndInvalidity"
        /\ LET args == table.detected_misbehavior[v].proof.args IN
            /\ args[1] \in DOMAIN Records
            /\ v \in DOMAIN Records[args[1]].validity_votes
            /\ Records[args[1]].validity_votes[v] = [kind |-> "Valid", sig |-> args[2]]
            /\ ~InList(v, Records[args[1]].indicated_bad_by)

\* The statement st of v casts a validity vote on a digest on which v has a
\* stored vote of another kind (for a Candidate statement: v is a member of the
\* candidate's group and has proposed no candidate of another digest, so that
\* the Issued vote is cast).
Conflicts(st, v) ==
    /\ ~panicked
    /\ st.statement.kind \in {"Candidate", "Valid", "Invalid"}
    /\ DigestOf(st) \in DOMAIN Records
    /\ v \in DOMAIN Records[DigestOf(st)].validity_votes
    /\ Records[DigestOf(st)].validity_votes[v].kind # VoteKindOf(st)
    /\ st.statement.kind = "Candidate"
          => /\ is_member_of(v, candidate_group(st.statement.candidate))
             /\ v \in DOMAIN table.proposed_candidates
                   => table.proposed_candidates[v][1] = DigestOf(st)

\* The digest a ValidityDoubleVote proof is about.
ProofDigest(proof) ==
    IF proof.kind = "ValidityAndInvalidity" THEN proof.args[1] ELSE proof.args[2][1]

\* v stands accused of a double vote on d.
AccusedOfDoubleVote(v, d) ==
    /\ v \in DOMAIN table.detected_misbehavior
    /\ table.detected_misbehavior[v].kind = "ValidityDoubleVote"
    /\ ProofDigest(table.detected_misbehavior[v].proof) = d

\* The proof that pairs two votes of different kinds on the record of d, each
\* signature in the slot of its kind.
ProofOfPair(d, a, b) ==
    LET sig(kind) == IF a.kind = kind THEN a.sig ELSE b.sig
        kinds == {a.kind, b.kind}
    IN [kind |-> "ValidityDoubleVote",
        proof |->
            IF kinds = {"Valid", "Invalid"}
            THEN [kind |-> "ValidityAndInvalidity",
                  args |-> <<d, sig("Valid"), sig("Invalid")>>]
            ELSE IF kinds = {"Issued", "Valid"}
            THEN [kind |-> "IssuedAndValidity",
                  args |-> <<<<Records[d].candidate, sig("Issued")>>, <<d, sig("Valid")>>>>]
            ELSE [kind |-> "IssuedAndInvalidity",
                  args |-> <<<<Records[d].candidate, sig("Issued")>>,
                             <<d, sig("Invalid")>>>>]]

\* C13 as stated: a conflicting validity vote by v on d, imported while v stands
\* accused of an earlier conflict on d, produces the proof of that earlier
\* conflict again.
C13_SameProofAsFirstConflict ==
    \A st \in SignedStatements : \A v \in statement_signer(st) :
        (Conflicts(st, v) /\ AccusedOfDoubleVote(v, DigestOf(st)))
            => Notes(import_statement(table, st), v, table.detected_misbehavior[v])

\* C13 amended: every conflicting validity vote by v on d produces the proof
\* that pairs the retained first vote of v on d with the incoming vote, and
\* importing the same conflicting vote once more produces that proof again.
C13_ProofPairsFirstVote ==
    \A st \in SignedStatements : \A v \in statement_signer(st) :
        Conflicts(st, v)
            => LET done == import_statement(table, st)
                   proof == ProofOfPair(DigestOf(st),
                                        Records[DigestOf(st)].validity_votes[v],
                                        [kind |-> VoteKindOf(st), sig |-> st.signature])
               IN /\ Notes(done, v, proof)
                  /\ import_statement(done.table, st).table.detected_misbehavior
                        = done.table.detected_misbehavior

\* C13 witness: a validator accused of a conflict on d can cast another
\* conflicting vote on d, and the proof then pairs its stored vote with that
\* vote and is not the proof of the earlier conflict.
C13_Witness ==
    \E st \in SignedStatements : \E v \in statement_signer(st) :
        /\ Conflicts(st, v)
        /\ AccusedOfDoubleVote(v, DigestOf(st))
        /\ LET done == import_statement(table, st) IN
            /\ Notes(done, v, ProofOfPair(DigestOf(st),
                                          Records[DigestOf(st)].validity_votes[v],
                                          [kind |-> VoteKindOf(st), sig |-> st.signature]))
            /\ done.table.detected_misbehavior[v] # table.detected_misbehavior[v]

\* The statement st of v casts a validity vote of the variant stored for v on
\* its digest, with another signature (for a Candidate statement: v is a
\* member of the candidate's group).
SameVariantOtherSignature(st, v) ==
    /\ ~panicked
    /\ st.statement.kind \in {"Candidate", "Valid", "Invalid"}
    /\ DigestOf(st) \in DOMAIN Records
    /\ v \in DOMAIN Records[DigestOf(st)].validity_votes
    /\ Records[DigestOf(st)].validity_votes[v].kind = VoteKindOf(st)
    /\ Records[DigestOf(st)].validity_votes[v].sig # st.signature
    /\ st.statement.kind = "Candidate"
          => is_member_of(v, candidate_group(st.statement.candidate))

\* C14: when a validator v whose stored validity vote on d has variant K
\* imports another vote of variant K on d with a different signature, the
\* import returns no misbehavior and the whole table, the stored signature
\* included, is unchanged.
C14_SameVariantNoMisbehavior ==
    \A st \in SignedStatements : \A v \in statement_signer(st) :
        SameVariantOtherSignature(st, v)
            => LET done == import_statement(table, st) IN
               /\ ~done.panic
               /\ done.mis = {}
               /\ done.table = table

\* C14 witness: a validator with a stored Issued vote and no misbehavior noted
\* can import its Candidate statement with another signature, and a validator
\* with a stored Valid vote can import Valid with another signature.
C14_Witness ==
    /\ \E st \in SignedOfKind({"Candidate"}) : \E v \in statement_signer(st) :
          /\ SameVariantOtherSignature(st, v)
          /\ v \notin DOMAIN table.detected_misbehavior
          /\ import_statement(table, st).table = table
    /\ \E st \in SignedOfKind({"Valid"}) : \E v \in statement_signer(st) :
          /\ SameVariantOtherSignature(st, v)
          /\ import_statement(table, st).table = table

\* The statement st of v is recorded: the candidate v proposed with that
\* signature, the validity vote stored for v, or the availability vote stored
\* for v.
AlreadyRecorded(st, v) ==
    CASE st.statement.kind = "Candidate" ->
            /\ v \in DOMAIN table.proposed_candidates
            /\ table.proposed_candidates[v] = <<DigestOf(st), st.signature>>
            /\ first_candidate[v] = st.statement.candidate
      [] st.statement.kind \in {"Valid", "Invalid"} ->
            /\ DigestOf(st) \in DOMAIN Records
            /\ v \in DOMAIN Records[DigestOf(st)].validity_votes
            /\ Records[DigestOf(st)].validity_votes[v]
                  = [kind |-> st.statement.kind, sig |-> st.signature]
      [] st.statement.kind = "Available" ->
            /\ DigestOf(st) \in DOMAIN Records
            /\ v \in DOMAIN Records[DigestOf(st)].availability_votes
            /\ Records[DigestOf(st)].availability_votes[v] = st.signature

\* C15: in any reachable state, importing again a statement that is already
\* recorded (same signer, same statement, same signature) returns and leaves
\* proposed, the records and misbehavior unchanged.
C15_Idempotent ==
    \A st \in SignedStatements : \A v \in statement_signer(st) :
        (~panicked /\ AlreadyRecorded(st, v))
            => LET done == import_statement(table, st) IN
               /\ ~done.panic
               /\ done.table = table

\* C15 witness: a validator's proposal is noted, its stored vote on the
\* proposed digest is an explicit one cast earlier, no misbehavior is noted
\* for it, and importing its Candidate statement again notes one.
C15_Witness ==
    \E v \in DOMAIN table.proposed_candidates :
        LET d == table.proposed_candidates[v][1] IN
        /\ ~panicked
        /\ d \in DOMAIN Records
        /\ Records[d].candidate = first_candidate[v]
        /\ v \in DOMAIN Records[d].validity_votes
        /\ Records[d].validity_votes[v].kind \in {"Valid", "Invalid"}
        /\ v \notin DOMAIN table.detected_misbehavior
        /\ v \in DOMAIN import_statement(
                            table,
                            [statement |-> [kind |-> "Candidate",
                                            candidate |-> first_candidate[v]],
                             signature |-> table.proposed_candidates[v][2]]
                         ).table.detected_misbehavior

\* C16: for each validator v with proposed[v] = (d, s) a record for d exists,
\* and the lookup of records[d] made when v proposes a second candidate does
\* not fail.
C16_ProposedHasRecord ==
    \A v \in DOMAIN table.proposed_candidates :
        /\ table.proposed_candidates[v][1] \in DOMAIN Records
        /\ \A c \in Candidates, s \in Signatures :
              ~SecondCandidate(table, v, table.proposed_candidates[v][1], c, s).panic

\* C16 witness: two validators have proposals noted and one of them stands
\* accused of MultipleCandidates, the first candidate looked up in the record
\* of its proposed digest.
C16_Witness ==
    /\ Cardinality(DOMAIN table.proposed_candidates) >= 2
    /\ \E v \in DOMAIN table.proposed_candidates :
          /\ v \in DOMAIN table.detected_misbehavior
          /\ table.detected_misbehavior[v].kind = "MultipleCandidates"
          /\ table.detected_misbehavior[v].first[1]
                = Records[table.proposed_candidates[v][1]].candidate

\* C17: every record satisfies group_id = candidate_group(candidate).
C17_RecordGroupIsCandidateGroup ==
    \A d \in DOMAIN Records : Records[d].group_id = candidate_group(Records[d].candidate)

\* C17 witness: records of candidates of two groups exist.
C17_Witness ==
    \E d, e \in DOMAIN Records :
        /\ Records[d].group_id = 1
        /\ Records[e].group_id = 2
        /\ candidate_group(Records[e].candidate) = 2

\* C18: a validator is in records[d].indicated_bad_by if and only if its stored
\* validity vote on d is Invalid, and an Invalid vote of a validator whose
\* stored vote on d is Issued or Valid leaves indicated_bad_by as it was.
C18_IndicatedBadIffFirstInvalid ==
    /\ \A d \in DOMAIN Records : \A v \in ValidatorIds :
          InList(v, Records[d].indicated_bad_by)
              <=> /\ v \in DOMAIN Records[d].validity_votes
                  /\ Records[d].validity_votes[v].kind = "Invalid"
    /\ \A st \in SignedOfKind({"Invalid"}) : \A v \in statement_signer(st) :
          LET d == st.statement.digest IN
          ( /\ ~panicked
            /\ d \in DOMAIN Records
            /\ v \in DOMAIN Records[d].validity_votes
            /\ Records[d].validity_votes[v].kind \in {"Issued", "Valid"} )
          => import_statement(table, st).table.candidate_votes[d].indicated_bad_by
                = Records[d].indicated_bad_by

\* C18 witness: a record lists one validator as accuser, and another, whose
\* stored vote is Issued and who voted Invalid later, is not listed.
C18_Witness ==
    \E d \in DOMAIN Records : \E v, w \in DOMAIN Records[d].validity_votes :
        /\ Records[d].indicated_bad_by = <<v>>
        /\ Records[d].validity_votes[w].kind = "Issued"
        /\ w \in DOMAIN table.detected_misbehavior
        /\ table.detected_misbehavior[w].kind = "ValidityDoubleVote"
        /\ table.detected_misbehavior[w].proof.kind = "IssuedAndInvalidity"
        /\ table.detected_misbehavior[w].proof.args[2][1] = d

\* The kinds of validity vote stored for v across all records, and in the
\* record of d.
KindsStored(v) ==
    {Records[d].validity_votes[v].kind :
        d \in {x \in DOMAIN Records : v \in DOMAIN Records[x].validity_votes}}

KindsStoredOn(v, d) ==
    {Records[x].validity_votes[v].kind :
        x \in {y \in DOMAIN Records : y = d /\ v \in DOMAIN Records[y].validity_votes}}

\* C19 as stated: for every validator v the number of distinct kinds of
\* validity vote stored for v across all records is at most 1, plus 1 if
\* misbehavior[v] exists.
C19_KindsAcrossRecords ==
    \A v \in ValidatorIds :
        Cardinality(KindsStored(v))
            <= 1 + (IF v \in DOMAIN table.detected_misbehavior THEN 1 ELSE 0)

\* C19 amended: for every validator v and digest d at most one kind of
\* validity vote is stored for v in records[d], and an Issued vote of v is
\* stored only in the record of the digest v proposed.
C19_OneKindPerRecord ==
    \A v \in ValidatorIds : \A d \in DOMAIN Records :
        /\ Cardinality(KindsStoredOn(v, d)) <= 1
        /\ "Issued" \in KindsStoredOn(v, d)
              => /\ v \in DOMAIN table.proposed_candidates
                 /\ table.proposed_candidates[v][1] = d

\* C19 witness: a validator with no misbehavior noted holds the Issued vote of
\* its proposal in one record and a Valid vote in another.
C19_Witness ==
    \E v \in ValidatorIds :
        /\ v \notin DOMAIN table.detected_misbehavior
        /\ KindsStored(v) = {"Issued", "Valid"}
        /\ ~panicked

\* An import whose handler returns a proof for its signer v leaves exactly that
\* proof as misbehavior[v], whatever was noted before, an import whose handler
\* returns none leaves misbehavior as it was, no import touches the entry of
\* another validator, and a drain empties the map.
ImportNotesLatest ==
    /\ \A st \in SignedStatements : \A v \in statement_signer(st) :
          LET done == import_statement(table, st)
              after == done.table.detected_misbehavior
          IN (~panicked /\ ~done.panic)
              => /\ done.mis # {} => (v \in DOMAIN after /\ after[v] \in done.mis)
                 /\ done.mis = {} => after = table.detected_misbehavior
                 /\ \A w \in ValidatorIds \ {v} :
                       /\ w \in DOMAIN after <=> w \in DOMAIN table.detected_misbehavior
                       /\ w \in DOMAIN after => after[w] = table.detected_misbehavior[w]
    /\ drain_misbehavior(table).table.detected_misbehavior = EmptyMap

\* C20: at all times misbehavior[v] is the proof of the most recent
\* misbehaving statement of v since the last drain: a misbehaving import
\* overwrites the entry of its signer, and no other import changes or removes
\* it.
C20_LatestProofKept == []ImportNotesLatest

\* C20 witness: a validator with a proof noted imports a statement that
\* produces another proof, which takes the place of the first, and can import
\* a statement that produces none and changes a record.
C20_Witness ==
    \E v \in DOMAIN table.detected_misbehavior :
        /\ ~panicked
        /\ \E st \in SignedStatements :
              LET done == import_statement(table, st) IN
              /\ statement_signer(st) = {v}
              /\ done.mis # {}
              /\ done.table.detected_misbehavior[v] # table.detected_misbehavior[v]
        /\ \E st \in SignedStatements :
              LET done == import_statement(table, st) IN
              /\ statement_signer(st) = {v}
              /\ ~done.panic
              /\ done.mis = {}
              /\ done.table.candidate_votes # Records

\* C21: drain_misbehavior returns the misbehavior map as it was before the
\* call and leaves misbehavior empty and proposed and the records unchanged; a
\* drain_misbehavior that follows at once returns an empty map.
C21_DrainReturnsAndClears ==
    LET drained == drain_misbehavior(table) IN
    /\ drained.returned = table.detected_misbehavior
    /\ drained.table.detected_misbehavior = EmptyMap
    /\ drained.table.proposed_candidates = table.proposed_candidates
    /\ drained.table.candidate_votes = Records
    /\ drain_misbehavior(drained.table).returned = EmptyMap

\* C21 witness: a table with a proposal noted and two validators accused, so
\* that the drain returns two proofs.
C21_Witness ==
    /\ ~panicked
    /\ table.proposed_candidates # EmptyMap
    /\ Cardinality(DOMAIN drain_misbehavior(table).returned) = 2

\* C22: when statement_signer recovers no signer, import_statement returns
\* and leaves proposed, the records and misbehavior as they were, whatever the
\* kind of the statement.
C22_NoSignerNoChange ==
    \A st \in SignedStatements :
        (~panicked /\ statement_signer(st) = {})
        => LET done == import_statement(table, st) IN
           /\ ~done.panic
           /\ done.mis = {}
           /\ done.table = table

\* C22 witness: a table holding a proposal, a record and a proof, to which
\* statements of all four kinds without a recoverable signer are offered, the
\* vote ones on a digest with a record.
C22_Witness ==
    /\ ~panicked
    /\ table.proposed_candidates # EmptyMap
    /\ table.detected_misbehavior # EmptyMap
    /\ \A kind \in {"Candidate", "Valid", "Invalid", "Available"} :
          \E st \in SignedOfKind({kind}) :
              /\ statement_signer(st) = {}
              /\ DigestOf(st) \in DOMAIN Records
              /\ import_statement(table, st).table = table

\* The only votes of a record of digest d that the import of the Candidate
\* statement cst into a table without such a record leaves: the proposer's own
\* Issued vote, if any.
OnlyTheProposersVote(after, cst, d) ==
    d \in DOMAIN after.table.candidate_votes =>
        /\ after.table.candidate_votes[d].availability_votes = EmptyMap
        /\ after.table.candidate_votes[d].indicated_bad_by = <<>>
        /\ \A w \in DOMAIN after.table.candidate_votes[d].validity_votes :
              /\ w \in statement_signer(cst)
              /\ after.table.candidate_votes[d].validity_votes[w] = Issued(cst.signature)

\* A vote statement on a digest without a record is dropped without a trace,
\* and a Candidate statement of that digest imported next finds no vote of it.
AbsentDigestDropped ==
    \A st \in SignedOfKind({"Valid", "Invalid", "Available"}) :
        (~panicked /\ statement_signer(st) # {} /\ DigestOf(st) \notin DOMAIN Records)
        => LET done == import_statement(table, st) IN
           /\ ~done.panic
           /\ done.mis = {}
           /\ done.table = table
           /\ \A cst \in SignedOfKind({"Candidate"}) :
                 DigestOf(cst) = DigestOf(st)
                 => OnlyTheProposersVote(import_statement(done.table, cst), cst,
                                         DigestOf(st))

\* C23: a Valid, Invalid or Available statement whose digest has no record is
\* dropped: the table is unchanged and no misbehavior is returned or noted,
\* also when the signer is authorized for no group; the vote is not queued,
\* so the record a Candidate statement of that digest creates afterwards holds
\* no vote but its proposer's.
C23_AbsentDigestDropped == []AbsentDigestDropped

\* C23 witness: an Invalid statement of a validator in no group, on a digest
\* without a record while another digest has one, after which a member's
\* Candidate statement of that digest creates the record.
C23_Witness ==
    /\ ~panicked
    /\ Records # EmptyMap
    /\ \E st \in SignedOfKind({"Invalid"}) : \E cst \in SignedOfKind({"Candidate"}) :
          /\ statement_signer(st) = {4}
          /\ DigestOf(st) \notin DOMAIN Records
          /\ DigestOf(cst) = DigestOf(st)
          /\ LET after == import_statement(import_statement(table, st).table, cst) IN
              /\ ~after.panic
              /\ DigestOf(st) \in DOMAIN after.table.candidate_votes
              /\ DOMAIN after.table.candidate_votes[DigestOf(st)].validity_votes
                     = statement_signer(cst)

SilentlyDropped(done) ==
    /\ done.mis = {}
    /\ done.table = table

RecordedAsMisbehavior(done, v) ==
    /\ \E proof \in done.mis : Notes(done, v, proof)
    /\ done.table.proposed_candidates = table.proposed_candidates
    /\ done.table.candidate_votes = Records

Accepted(done) ==
    /\ done.mis = {}
    /\ done.table.detected_misbehavior = table.detected_misbehavior
    /\ \/ done.table.proposed_candidates # table.proposed_candidates
       \/ done.table.candidate_votes # Records

\* C24: every import_statement call reaches exactly one of three outcomes:
\* dropped without a change, recorded as misbehavior of the signer, or accepted
\* into proposed or a vote table; no call both changes proposed or a vote table
\* and records a misbehavior.
C24_ExactlyOneOutcome ==
    \A st \in SignedStatements : \A v \in statement_signer(st) :
        ~panicked
        => LET done == import_statement(table, st) IN
           /\ ~done.panic
           /\ \/ SilentlyDropped(done)
              \/ RecordedAsMisbehavior(done, v)
              \/ Accepted(done)
           /\ ~ /\ done.mis # {}
                /\ \/ done.table.proposed_candidates # table.proposed_candidates
                   \/ done.table.candidate_votes # Records

\* C24 witness: a member of a record's group that has voted Valid or Invalid
\* on it and has no proposal noted imports the Candidate statement of the
\* record's candidate: the call returns, notes the proposal and notes a
\* double vote.
C24_Witness ==
    \E st \in SignedOfKind({"Candidate"}) : \E v \in statement_signer(st) :
        /\ ~panicked
        /\ v \notin DOMAIN table.proposed_candidates
        /\ DigestOf(st) \in DOMAIN Records
        /\ Records[DigestOf(st)].candidate = st.statement.candidate
        /\ v \in DOMAIN Records[DigestOf(st)].validity_votes
        /\ LET done == import_statement(table, st) IN
           /\ ~done.panic
           /\ v \in DOMAIN done.table.proposed_candidates
           /\ done.table.proposed_candidates[v] = <<DigestOf(st), st.signature>>
           /\ done.table.candidate_votes = Records
           /\ \E proof \in done.mis :
                 /\ proof.kind = "ValidityDoubleVote"
                 /\ Notes(done, v, proof)

\* The record `new` is the record `old` with at most votes added: the same
\* candidate and group, and every vote of `old` as it was.
KeepsItsVotes(new, old) ==
    /\ new.candidate = old.candidate
    /\ new.group_id = old.group_id
    /\ new.availability_votes = old.availability_votes
    /\ new.indicated_bad_by = old.indicated_bad_by
    /\ \A w \in DOMAIN old.validity_votes :
          /\ w \in DOMAIN new.validity_votes
          /\ new.validity_votes[w] = old.validity_votes[w]

\* C26: when a validator v without a proposal noted imports a Candidate
\* statement (c, s) of a group it is a member of, with digest d: if d has no
\* record, the import returns with proposed[v] = (d, s), a new record
\* records[d] of group candidate_group(c) and candidate c whose only vote is
\* v's Issued(s), and no misbehavior returned or noted; if d has a record, the
\* record is not replaced and keeps its votes.
C26_FirstProposal ==
    \A st \in SignedOfKind({"Candidate"}) : \A v \in statement_signer(st) :
        ( /\ ~panicked
          /\ v \notin DOMAIN table.proposed_candidates
          /\ is_member_of(v, candidate_group(st.statement.candidate)) )
        => LET done == import_statement(table, st)
               c == st.statement.candidate
               d == candidate_digest(st.statement.candidate)
           IN
           IF d \notin DOMAIN Records
           THEN /\ ~done.panic
                /\ done.mis = {}
                /\ done.table.detected_misbehavior = table.detected_misbehavior
                /\ done.table.proposed_candidates
                       = (v :> <<d, st.signature>>) @@ table.proposed_candidates
                /\ done.table.candidate_votes
                       = (d :> [group_id |-> candidate_group(c),
                                candidate |-> c,
                                validity_votes |-> (v :> Issued(st.signature)),
                                availability_votes |-> EmptyMap,
                                indicated_bad_by |-> <<>>]) @@ Records
           ELSE /\ DOMAIN done.table.candidate_votes = DOMAIN Records
                /\ KeepsItsVotes(done.table.candidate_votes[d], Records[d])

\* C26 witness: two validators have proposals noted on the same digest, whose
\* record, created by the first and kept by the second, holds the Issued votes
\* of both and an Available vote.
C26_Witness ==
    \E v, w \in DOMAIN table.proposed_candidates :
        LET d == table.proposed_candidates[v][1] IN
        /\ v # w
        /\ table.proposed_candidates[w][1] = d
        /\ d \in DOMAIN Records
        /\ {v, w} \subseteq DOMAIN Records[d].validity_votes
        /\ Records[d].validity_votes[v] = Issued(table.proposed_candidates[v][2])
        /\ Records[d].validity_votes[w] = Issued(table.proposed_candidates[w][2])
        /\ Records[d].availability_votes # EmptyMap

\* C27: when a validator v with proposed[v] = (d, s) imports again a
\* Candidate statement whose digest is d, the import returns and has no
\* effect: proposed, the records and misbehavior are unchanged.
C27_RebroadcastNoEffect ==
    \A st \in SignedOfKind({"Candidate"}) : \A v \in statement_signer(st) :
        ( /\ ~panicked
          /\ v \in DOMAIN table.proposed_candidates
          /\ table.proposed_candidates[v][1] = DigestOf(st) )
        => LET done == import_statement(table, st) IN
           /\ ~done.panic
           /\ done.table = table

\* C27 witness: a validator imports again the very statement of its noted
\* proposal, candidate and signature, and the table is not what it was: a
\* proof is noted for the validator.
C27_Witness ==
    \E st \in SignedOfKind({"Candidate"}) : \E v \in statement_signer(st) :
        /\ ~panicked
        /\ v \in DOMAIN table.proposed_candidates
        /\ table.proposed_candidates[v] = <<DigestOf(st), st.signature>>
        /\ first_candidate[v] = st.statement.candidate
        /\ LET done == import_statement(table, st) IN
           /\ ~done.panic
           /\ done.table.proposed_candidates = table.proposed_candidates
           /\ done.table.candidate_votes = Records
           /\ done.table.detected_misbehavior # table.detected_misbehavior
           /\ done.mis # {}

\* C28: when an availability guarantor v of the group of records[d] imports
\* Available(d), the import returns with availability_votes[v] set to the
\* statement's signature, in place of any signature stored for v, so that v
\* has one entry; no misbehavior is returned or noted, and validity_votes,
\* indicated_bad_by, proposed and the other records are unchanged.
C28_AvailabilityVoteStored ==
    \A st \in SignedOfKind({"Available"}) : \A v \in statement_signer(st) :
        ( /\ ~panicked
          /\ st.statement.digest \in DOMAIN Records
          /\ is_availability_guarantor_of(v, Records[st.statement.digest].group_id) )
        => LET done == import_statement(table, st)
               d == st.statement.digest
           IN
           /\ ~done.panic
           /\ done.mis = {}
           /\ done.table.detected_misbehavior = table.detected_misbehavior
           /\ done.table.proposed_candidates = table.proposed_candidates
           /\ DOMAIN done.table.candidate_votes = DOMAIN Records
           /\ \A e \in DOMAIN Records \ {d} : done.table.candidate_votes[e] = Records[e]
           /\ done.table.candidate_votes[d]
                  = [Records[d] EXCEPT !.availability_votes = (v :> st.signature) @@ @]
           /\ DOMAIN done.table.candidate_votes[d].availability_votes
                  = DOMAIN Records[d].availability_votes \cup {v}
           /\ done.table.candidate_votes[d].availability_votes[v] = st.signature

\* C28 witness: a guarantor whose Available vote is stored on a record that
\* also holds a validity vote imports Available for the same digest under
\* another signature, and the stored signature becomes the new one.
C28_Witness ==
    \E st \in SignedOfKind({"Available"}) : \E v \in statement_signer(st) :
        LET d == st.statement.digest IN
        /\ ~panicked
        /\ d \in DOMAIN Records
        /\ v \in DOMAIN Records[d].availability_votes
        /\ Records[d].availability_votes[v] # st.signature
        /\ Cardinality(DOMAIN Records[d].availability_votes) = 2
        /\ Records[d].validity_votes # EmptyMap
        /\ LET after == import_statement(table, st).table.candidate_votes[d] IN
           /\ after.availability_votes[v] = st.signature
           /\ Cardinality(DOMAIN after.availability_votes) = 2

\* The operations that take &mut self.
Mutators == {"import_statement", "drain_misbehavior"}

\* The operations that take &self.
Queries == {"proposed_candidates", "candidates_in_group"}

\* C29: a newly created table has empty proposed, records and misbehavior;
\* proposed_candidates and candidates_in_group never change the table; only
\* import_statement and drain_misbehavior change it.
C29_OnlyImportAndDrainMutate ==
    /\ [](last_call.op = "create" =>
             /\ table.proposed_candidates = EmptyMap
             /\ table.candidate_votes = EmptyMap
             /\ table.detected_misbehavior = EmptyMap)
    /\ [][last_call'.op \in Queries => table' = table]_vars
    /\ [][table' # table => last_call'.op \in Mutators]_vars

\* C29 witness: proposed_candidates has just returned a candidate from a
\* table that holds a proposal, a record and a proof.
C29_Witness ==
    /\ last_call.op = "proposed_candidates"
    /\ last_call.returned # <<>>
    /\ table.proposed_candidates # EmptyMap
    /\ table.detected_misbehavior # EmptyMap

\* Every validity vote stored is of a member of the record's group, every
\* availability vote of an availability guarantor of it.
VotesAuthorized ==
    \A d \in DOMAIN Records :
        /\ \A v \in DOMAIN Records[d].validity_votes :
              is_member_of(v, Records[d].group_id)
        /\ \A v \in DOMAIN Records[d].availability_votes :
              is_availability_guarantor_of(v, Records[d].group_id)

\* Every validator with a proposal noted is a member of the group of the
\* record of the proposed digest.
ProposersAuthorized ==
    \A v \in DOMAIN table.proposed_candidates :
        /\ table.proposed_candidates[v][1] \in DOMAIN Records
        /\ is_member_of(v, Records[table.proposed_candidates[v][1]].group_id)

AuthorizedWhereReturned ==
    /\ VotesAuthorized
    /\ ~panicked => ProposersAuthorized

\* C31: a validator that signs only statements it is authorized for, proposes
\* one distinct candidate at most and casts one kind of validity vote per
\* digest at most, its own proposal counted, has no misbehavior entry, whatever
\* the other validators import and in whatever interleaving.
C31_NoFalseAccusation ==
    honest.who \notin DOMAIN table.detected_misbehavior

\* C31 witness: the followed validator has signed its proposal twice, under
\* two signatures, while another validator stands accused.
C31_Witness ==
    /\ ~panicked
    /\ honest.who \in DOMAIN table.proposed_candidates
    /\ \E a, b \in honest.signed :
          /\ a.statement.kind = "Candidate"
          /\ b.statement = a.statement
          /\ b.signature # a.signature
    /\ table.detected_misbehavior # EmptyMap

\* The record of digest d is the only one of its group in table t that can be
\* included under the thresholds r.
NoOtherIncludable(t, r, d) ==
    \A e \in DOMAIN t.candidate_votes \ {d} :
        t.candidate_votes[e].group_id = t.candidate_votes[d].group_id
            => ~can_be_included(t.candidate_votes[e],
                                requisite_votes(r, t.candidate_votes[e].group_id)[1],
                                requisite_votes(r, t.candidate_votes[e].group_id)[2])

\* Right after the import that returns from the first proposal of a candidate c
\* by a member of its group g, every output of proposed_candidates under
\* thresholds (1, 0) for g contains c, unless another record of g can be
\* included.
IssuedVoteCounts ==
    \A st \in SignedOfKind({"Candidate"}) : \A v \in statement_signer(st) :
        LET c == st.statement.candidate
            g == candidate_group(st.statement.candidate)
            d == candidate_digest(st.statement.candidate)
        IN
        ( /\ ~panicked
          /\ v \notin DOMAIN table.proposed_candidates
          /\ is_member_of(v, g)
          /\ \A e \in DOMAIN Records : Records[e].candidate # c )
        => LET done == import_statement(table, st) IN
           ~done.panic =>
               /\ d \in DOMAIN done.table.candidate_votes
               /\ done.table.candidate_votes[d].candidate = c
               /\ \A r \in RequisiteChoices :
                     ( /\ requisite_votes(r, g) = <<1, 0>>
                       /\ NoOtherIncludable(done.table, r, d) )
                     => \A list \in proposed_candidates(done.table, r) : InList(c, list)

\* C32: the proposer's Issued vote counts toward the validity threshold: right
\* after an authorized first proposal of a candidate c of a group g with
\* thresholds (1, 0), and with no other includable record in g,
\* proposed_candidates contains c; and every record has a validity vote.
C32_IssuedVoteCounts ==
    /\ IssuedVoteCounts
    /\ \A d \in DOMAIN Records : Records[d].validity_votes # EmptyMap

\* C32 witness: a record whose only vote is its proposer's Issued vote, of a
\* group with thresholds (1, 0) that has a second record, accused and so not
\* includable, is the one proposed_candidates returns.
C32_Witness ==
    \E r \in RequisiteChoices : \E d, e \in DOMAIN Records :
        /\ ~panicked
        /\ d # e
        /\ Records[e].group_id = Records[d].group_id
        /\ requisite_votes(r, Records[d].group_id) = <<1, 0>>
        /\ NoOtherIncludable(table, r, d)
        /\ Records[d].availability_votes = EmptyMap
        /\ \E v \in DOMAIN Records[d].validity_votes :
              /\ DOMAIN Records[d].validity_votes = {v}
              /\ Records[d].validity_votes[v].kind = "Issued"
        /\ \A list \in proposed_candidates(table, r) : InList(Records[d].candidate, list)

\* The candidate of a record with an accuser is in no output of
\* proposed_candidates, whatever the thresholds.
AccusedNotProposed ==
    \A d \in DOMAIN Records :
        Records[d].indicated_bad_by # <<>>
            => \A r \in RequisiteChoices : \A list \in proposed_candidates(table, r) :
                  ~InList(Records[d].candidate, list)

\* A step keeps every record, its candidate, and its accusers as the first
\* entries of indicated_bad_by.
AccusersKept ==
    \A d \in DOMAIN Records :
        /\ d \in DOMAIN table'.candidate_votes
        /\ table'.candidate_votes[d].candidate = Records[d].candidate
        /\ Len(table'.candidate_votes[d].indicated_bad_by)
               >= Len(Records[d].indicated_bad_by)
        /\ SubSeq(table'.candidate_votes[d].indicated_bad_by,
                  1, Len(Records[d].indicated_bad_by))
               = Records[d].indicated_bad_by

\* C33: once a record has a non-empty indicated_bad_by its candidate never
\* again appears in the output of proposed_candidates, whatever is imported
\* afterwards: indicated_bad_by never shrinks, and a candidate with an accuser
\* is never returned.
C33_AccusedNeverProposed ==
    /\ []AccusedNotProposed
    /\ [][AccusersKept]_vars

\* C33 witness: a record with an accuser has the two validity votes and the
\* availability votes the thresholds ask for, and is not returned.
C33_Witness ==
    \E r \in RequisiteChoices : \E d \in DOMAIN Records :
        /\ ~panicked
        /\ Len(Records[d].indicated_bad_by) = 1
        /\ Cardinality(DOMAIN Records[d].validity_votes) = 2
        /\ requisite_votes(r, Records[d].group_id)[1] = 2
        /\ Cardinality(DOMAIN Records[d].availability_votes)
               >= requisite_votes(r, Records[d].group_id)[2]
        /\ \A list \in proposed_candidates(table, r) : ~InList(Records[d].candidate, list)

\* A step keeps every proposed entry as it is, every record with its group
\* and candidate, and every validator that has a validity or an availability
\* vote on a record.
Monotone ==
    /\ \A v \in DOMAIN table.proposed_candidates :
          /\ v \in DOMAIN table'.proposed_candidates
          /\ table'.proposed_candidates[v] = table.proposed_candidates[v]
    /\ \A d \in DOMAIN Records :
          /\ d \in DOMAIN table'.candidate_votes
          /\ table'.candidate_votes[d].group_id = Records[d].group_id
          /\ table'.candidate_votes[d].candidate = Records[d].candidate
          /\ DOMAIN Records[d].validity_votes
                 \subseteq DOMAIN table'.candidate_votes[d].validity_votes
          /\ DOMAIN Records[d].availability_votes
                 \subseteq DOMAIN table'.candidate_votes[d].availability_votes

\* The digest noted for a validator is the digest of the candidate of its first
\* noted proposal.
ProposedIsFirst ==
    \A v \in DOMAIN table.proposed_candidates :
        /\ v \in DOMAIN first_candidate
        /\ table.proposed_candidates[v][1] = candidate_digest(first_candidate[v])

\* C34: no operation removes a record or a proposed entry or changes them once
\* set: proposed[v] stays the first (digest, signature) v proposed, the
\* group_id and candidate of a record stay as created, and the sets of
\* validators in its validity_votes and availability_votes only grow.
C34_Monotone ==
    /\ [][Monotone]_vars
    /\ []ProposedIsFirst

\* C34 witness: a validator with a proposal noted stands accused of proposing
\* a second candidate, its noted proposal is still the first, and the record of
\* the first holds its Issued vote and an availability vote.
C34_Witness ==
    \E v \in DOMAIN table.proposed_candidates :
        LET d == table.proposed_candidates[v][1] IN
        /\ ~panicked
        /\ v \in DOMAIN table.detected_misbehavior
        /\ table.detected_misbehavior[v].kind = "MultipleCandidates"
        /\ table.detected_misbehavior[v].first[1] = first_candidate[v]
        /\ d \in DOMAIN Records
        /\ Records[d].candidate = first_candidate[v]
        /\ v \in DOMAIN Records[d].validity_votes
        /\ Records[d].validity_votes[v].kind = "Issued"
        /\ Records[d].availability_votes # EmptyMap

\* The entry of w in the map, none if it has none.
EntryOf(map, w) == IF w \in DOMAIN map THEN {map[w]} ELSE {}

\* The record `new` differs from `old` in the entries of v at most:
\* indicated_bad_by is the same or has v appended.
OnlyEntriesOf(v, new, old) ==
    /\ new.group_id = old.group_id
    /\ new.candidate = old.candidate
    /\ \A w \in ValidatorIds \ {v} :
          /\ EntryOf(new.validity_votes, w) = EntryOf(old.validity_votes, w)
          /\ EntryOf(new.availability_votes, w) = EntryOf(old.availability_votes, w)
    /\ \/ new.indicated_bad_by = old.indicated_bad_by
       \/ new.indicated_bad_by = Append(old.indicated_bad_by, v)

\* An import signed by v leaves the entries of every other validator alone.
ImportTouchesSignerOnly ==
    \A st \in SignedStatements : \A v \in statement_signer(st) :
        ~panicked
        => LET done == import_statement(table, st) IN
           /\ \A w \in ValidatorIds \ {v} :
                 /\ EntryOf(done.table.proposed_candidates, w)
                        = EntryOf(table.proposed_candidates, w)
                 /\ EntryOf(done.table.detected_misbehavior, w)
                        = EntryOf(table.detected_misbehavior, w)
           /\ \A d \in DOMAIN Records :
                 /\ d \in DOMAIN done.table.candidate_votes
                 /\ OnlyEntriesOf(v, done.table.candidate_votes[d], Records[d])
           /\ \A d \in DOMAIN done.table.candidate_votes \ DOMAIN Records :
                 /\ DOMAIN done.table.candidate_votes[d].validity_votes \subseteq {v}
                 /\ done.table.candidate_votes[d].availability_votes = EmptyMap
                 /\ done.table.candidate_votes[d].indicated_bad_by = <<>>

\* C35: an import_statement call whose recovered signer is v changes v's own
\* entries only: proposed[w], misbehavior[w], and validity_votes[w] and
\* availability_votes[w] of every record are unchanged for every validator w
\* other than v, and indicated_bad_by changes by appending v at most.
C35_ImportTouchesSignerOnly == []ImportTouchesSignerOnly

\* C35 witness: a validator votes Invalid for the first time on a record that
\* holds validity and availability votes of others, while other validators
\* stand accused and have proposals noted; the import appends the voter to
\* indicated_bad_by.
C35_Witness ==
    \E st \in SignedOfKind({"Invalid"}) : \E v \in statement_signer(st) :
        LET d == st.statement.digest IN
        /\ ~panicked
        /\ d \in DOMAIN Records
        /\ v \notin DOMAIN Records[d].validity_votes
        /\ Records[d].validity_votes # EmptyMap
        /\ Records[d].availability_votes # EmptyMap
        /\ \E w \in DOMAIN table.detected_misbehavior : w # v
        /\ \E w \in DOMAIN table.proposed_candidates : w # v
        /\ import_statement(table, st).table.candidate_votes[d].indicated_bad_by
               = Append(Records[d].indicated_bad_by, v)

\* C36: in every reachable state, if the vote of v stored in records[d] is
\* Issued(s) then proposed[v] = (d, s); so each validator holds an Issued vote
\* in one record at most.
C36_IssuedIsTheProposal ==
    /\ \A d \in DOMAIN Records : \A v \in DOMAIN Records[d].validity_votes :
          Records[d].validity_votes[v].kind = "Issued"
              => /\ v \in DOMAIN table.proposed_candidates
                 /\ table.proposed_candidates[v] = <<d, Records[d].validity_votes[v].sig>>
    /\ \A v \in ValidatorIds :
          Cardinality({d \in DOMAIN Records : v \in VotersOfKind(Records[d], "Issued")}) <= 1

\* C36 witness: a validator holds the Issued vote of its proposal in one
\* record and a Valid vote in another, after proposing the candidate of that
\* other record as well.
C36_Witness ==
    \E v \in DOMAIN table.proposed_candidates : \E e \in DOMAIN Records :
        LET d == table.proposed_candidates[v][1] IN
        /\ ~panicked
        /\ d \in DOMAIN Records
        /\ e # d
        /\ v \in VotersOfKind(Records[d], "Issued")
        /\ v \in VotersOfKind(Records[e], "Valid")
        /\ v \in DOMAIN table.detected_misbehavior
        /\ table.detected_misbehavior[v].kind = "MultipleCandidates"
        /\ table.detected_misbehavior[v].second[1] = Records[e].candidate

\* table.import_statement(..) for each statement of the list in turn, into an
\* empty table, up to a panic, and whether every vote found the record of its
\* digest.
RECURSIVE ImportOrderly(_)
ImportOrderly(order) ==
    IF order = <<>>
    THEN [table |-> create, panic |-> FALSE, orderly |-> TRUE]
    ELSE LET before == ImportOrderly(SubSeq(order, 1, Len(order) - 1))
             st == order[Len(order)]
         IN
         IF before.panic
         THEN before
         ELSE LET done == import_statement(before.table, st) IN
              [table |-> done.table,
               panic |-> done.panic,
               orderly |-> (before.orderly
                              /\ (IsVote(st) => st.statement.digest
                                                  \in DOMAIN before.table.candidate_votes))]

\* The elements of a list.
Members(seq) == {seq[i] : i \in 1 .. Len(seq)}

\* proposed and the records of a table, indicated_bad_by taken as a set.
UpToAccuserOrder(t) ==
    [proposed |-> t.proposed_candidates,
     records |-> [d \in DOMAIN t.candidate_votes |->
                     [t.candidate_votes[d] EXCEPT !.indicated_bad_by = Members(@)]]]

\* The run left the proposed, the records and the proposed_candidates outputs
\* the table has.
SameAsTable(run) ==
    /\ UpToAccuserOrder(run.table) = UpToAccuserOrder(table)
    /\ \A r \in RequisiteChoices :
          proposed_candidates(run.table, r) = proposed_candidates(table, r)

\* No validator has signed one statement under two signatures.
SignedOnce(statements) ==
    \A a, b \in statements :
        (statement_signer(a) = statement_signer(b) /\ a.statement = b.statement) => a = b

\* C37 as stated: for a set of well-formed, non-conflicting statements, any two
\* import orders in which every Valid, Invalid and Available statement arrives
\* after a Candidate statement that created the record of its digest, and that
\* return, produce the same proposed, records (up to the order of
\* indicated_bad_by) and proposed_candidates output.
C37_OrderlyOrdersAgree ==
    (orderly /\ ~panicked)
    => \A order \in Orders(imported) :
          LET run == ImportOrderly(order) IN
          (run.orderly /\ ~run.panic) => SameAsTable(run)

\* C37 amended: for such a set in which no validator signs one statement under
\* two signatures, any two such orders both end in a panic or both return,
\* and when they return they produce the same proposed, records (up to the
\* order of indicated_bad_by) and proposed_candidates output.
C37_OrderlyOrdersOfSignedOnceAgree ==
    (SignedOnce(imported) /\ orderly)
    => \A order \in Orders(imported) :
          LET run == ImportOrderly(order) IN
          run.orderly
          => /\ run.panic = panicked
             /\ ~panicked => SameAsTable(run)

\* C37 witness: four statements, each signed once, two Candidate statements of
\* different digests with an Invalid and an Available vote, were imported with
\* every vote after the record of its digest, and two orders of them that
\* start with different statements do the same and leave what the table holds.
C37_Witness ==
    /\ orderly
    /\ ~panicked
    /\ SignedOnce(imported)
    /\ Cardinality(imported) = 4
    /\ Cardinality(DOMAIN Records) = 2
    /\ \E a, b \in imported : a.statement.kind = "Invalid" /\ b.statement.kind = "Available"
    /\ \E o1, o2 \in Orders(imported) :
          /\ o1[1] # o2[1]
          /\ ImportOrderly(o1).orderly
          /\ ImportOrderly(o2).orderly
          /\ SameAsTable(ImportOrderly(o1))
          /\ SameAsTable(ImportOrderly(o2))

====
